---- MODULE Spec2Model ----
(***************************************************************************)
(* Render -> encode pipeline of the coverflow video generator              *)
(* (coverflow/video_generator.py) together with the background worker that *)
(* runs it (gui/workers/video_worker.py).                                  *)
(*                                                                         *)
(* Three threads are modelled: the producer (VideoGenerator.generate, run  *)
(* by VideoWorker._run), the consumer (VideoGenerator._encode_frames) and  *)
(* the user interface thread, whose only step is VideoWorker.cancel.       *)
(* A frame is identified by its absolute frame number together with the    *)
(* arguments (center image, offset) of the render call that produced it.   *)
(* Offsets are exact rationals <<numerator, denominator>>.                 *)
(***************************************************************************)
EXTENDS Integers, Sequences, FiniteSets, TLC

None == "None"
\* an Optional value: <<>> is None, <<v>> is the value v
NoValue == <<>>
Some(v) == <<v>>
ValueOf(o) == o[1]

(***************************************************************************)
(* Bounds of the model.                                                    *)
(***************************************************************************)
MaxImages == 2      \* image counts 1..MaxImages
MaxFrames == 1      \* hold / first hold / transition frame counts 0..MaxFrames
MaxArg == 1         \* requested start_frame / end_frame up to MaxArg

(***************************************************************************)
(* Program constants.                                                      *)
(***************************************************************************)
MaxSize == 30       \* FrameBuffer(max_size=30)

Min(a, b) == IF a < b THEN a ELSE b
Max(a, b) == IF a > b THEN a ELSE b

(***************************************************************************)
(* Easing functions (coverflow/utils.py).  easing(k / T) is computed       *)
(* exactly, as a fraction over the common denominator 2 * T^3.  The three  *)
(* sine easings are irrational and are not part of the model.              *)
(***************************************************************************)
Sq(x) == x * x
Cube(x) == x * x * x
EaseDen(T) == 2 * Cube(T)

linear(k, T) == 2 * k * Sq(T)
ease_in_quad(k, T) == 2 * Sq(k) * T
ease_out_quad(k, T) == 2 * T * (Sq(T) - Sq(T - k))
ease_in_out_quad(k, T) ==
    IF 2 * k < T THEN 4 * Sq(k) * T
                 ELSE T * (2 * Sq(T) - Sq(2 * T - 2 * k))
ease_in_cubic(k, T) == 2 * Cube(k)
ease_out_cubic(k, T) == 2 * (Cube(T) - Cube(T - k))
ease_in_out_cubic(k, T) ==
    IF 2 * k < T THEN 8 * Cube(k)
                 ELSE 2 * Cube(T) - Cube(2 * T - 2 * k)

EASING_FUNCTIONS ==
    {"linear", "ease_in_quad", "ease_out_quad", "ease_in_out_quad",
     "ease_in_cubic", "ease_out_cubic", "ease_in_out_cubic"}

\* EASING_FUNCTIONS.get(name, ease_in_out_cubic)
get_easing_function(name) ==
    IF name \in EASING_FUNCTIONS THEN name ELSE "ease_in_out_cubic"

\* self.easing_func(k / T), as <<numerator, denominator>>
easing_func(name, k, T) ==
    LET f == get_easing_function(name)
        num == CASE f = "linear" -> linear(k, T)
                 [] f = "ease_in_quad" -> ease_in_quad(k, T)
                 [] f = "ease_out_quad" -> ease_out_quad(k, T)
                 [] f = "ease_in_out_quad" -> ease_in_out_quad(k, T)
                 [] f = "ease_in_cubic" -> ease_in_cubic(k, T)
                 [] f = "ease_out_cubic" -> ease_out_cubic(k, T)
                 [] OTHER -> ease_in_out_cubic(k, T)
    IN  <<num, EaseDen(T)>>

RatEq(a, b) == a[1] * b[2] = b[1] * a[2]

(***************************************************************************)
(* State.                                                                  *)
(***************************************************************************)
VARIABLES
    cfg,                  \* the Config fields generate() reads, in frames
    pc,                   \* producer: position in _run / generate()
    img_idx,              \* generate(): for img_idx in range(num_images)
    frame,                \* generate(): for frame in range(...)
    absolute_frame,       \* generate(): position in the full video
    generation_complete,  \* generate(): end frame passed
    hold_frame_rgb,       \* generate(): cached hold raster of this image
    queue,                \* frame_buffer.queue
    done,                 \* frame_buffer.done
    error,                \* frame_buffer.error
    out,                  \* the imageio writer: "unopened", "open", "closed"
    cancel_flag,          \* VideoWorker._cancel_flag
    cpc,                  \* consumer: position in _encode_frames
    cframe,               \* _encode_frames: frame
    frames_written,       \* _encode_frames: frames_written
    enqueued,             \* history: every frame put on the queue, in order
    written,              \* history: every frame the sink accepted, in order
    callbacks,            \* history: progress_callback invocations
    printed,              \* generate(): final message, "cancelled" / "saved"
    inspected,            \* history: what generate() read from the error slot
    completions,          \* history: on_complete invocations
    puts_after_cancel,    \* history: frames put while cancel_flag was set
    render_calls,         \* history: every renderer.render_frame call
    reported,             \* generate(): the statistics report (or None)
    arrays,               \* renderer: the pixel arrays allocated so far
    cached_background,    \* renderer._cached_background (an array, or None)
    scaled_images_cache,  \* renderer._scaled_images_cache: index -> array
    canvases,             \* history: the canvases render_frame returned
    preview_results,      \* history: PreviewWorker on_complete invocations
    blur_args,            \* _render_with_motion_blur: img_idx, base_offset
    blur_pc,              \* _render_with_motion_blur: position of the caller
    next_task,            \* executor.map: the next sample index handed out
    workers,              \* the threads rendering sub-frames, by thread
    sub_frames,           \* _render_with_motion_blur: sub_frames, by index
    perspective_cache,    \* ImageTransformer._perspective_cache
    blurred,              \* _render_with_motion_blur: the frame returned
    helper_calls          \* history: calls of the curve and blend helpers

vars == <<cfg, pc, img_idx, frame, absolute_frame, generation_complete,
          hold_frame_rgb, queue, done, error, out, cancel_flag, cpc, cframe,
          frames_written, enqueued, written, callbacks, printed, inspected,
          completions, puts_after_cancel, render_calls, reported, arrays,
          cached_background, scaled_images_cache, canvases,
          preview_results, blur_args, blur_pc, next_task, workers,
          sub_frames, perspective_cache, blurred, helper_calls>>

prodVars == <<img_idx, frame, absolute_frame, generation_complete,
              hold_frame_rgb>>
consVars == <<cpc, cframe, frames_written, written, callbacks, error>>
histVars == <<enqueued, puts_after_cancel, render_calls>>
endVars == <<printed, inspected, completions>>
rendVars == <<arrays, cached_background, scaled_images_cache, canvases>>
guiVars == <<preview_results>>
blurVars == <<blur_args, blur_pc, next_task, workers, sub_frames,
              perspective_cache, blurred>>
callVars == <<helper_calls>>
pipeVars == <<pc, prodVars, queue, done, out, cancel_flag, consVars,
              histVars, endVars, reported>>

(***************************************************************************)
(* Frame counts and the render range (generate(), lines 161-186).          *)
(***************************************************************************)
\* A duration in seconds (a float of the Config) is a fraction
\* <<numerator, denominator>>.  The inputs are multiples of 1/4 s, which a
\* binary float holds exactly, so that seconds * fps is the exact product.
Whole(k) == <<k, 1>>
Times(x, n) == <<x[1] * n, x[2]>>

\* int(x): truncation toward zero
int(x) == IF x[1] >= 0 THEN x[1] \div x[2] ELSE -((-x[1]) \div x[2])

\* config.first_hold if config.first_hold is not None else config.hold
first_hold_seconds(c) ==
    IF c.first_hold # NoValue THEN ValueOf(c.first_hold) ELSE c.hold

num_images == cfg.num_images
transition_frames == int(Times(cfg.transition, cfg.fps))
hold_frames == int(Times(cfg.hold, cfg.fps))
first_hold_frames == int(Times(first_hold_seconds(cfg), cfg.fps))

TotalFrames(n, fh, h, t, loop) ==
    LET base == IF n > 1 THEN fh + (n - 1) * h + (n - 1) * t ELSE fh
    IN  IF loop THEN base + t ELSE base

total_frames ==
    TotalFrames(num_images, first_hold_frames, hold_frames,
                transition_frames, cfg.loop)

\* fault variant: the loop transition is not counted
calculate_total_frames_NoLoop(config, n) ==
    LET t == int(Times(config.transition, config.fps))
        h == int(Times(config.hold, config.fps))
        fh == int(Times(first_hold_seconds(config), config.fps))
    IN  IF n > 1 THEN fh + (n - 1) * h + (n - 1) * t ELSE fh

\* calculate_total_frames(config, num_images) of the preview worker
calculate_total_frames(config, n) ==
    LET t == int(Times(config.transition, config.fps))
        h == int(Times(config.hold, config.fps))
        fh == int(Times(first_hold_seconds(config), config.fps))
        total == IF n > 1 THEN fh + (n - 1) * h + (n - 1) * t ELSE fh
    IN  IF config.loop THEN total + t ELSE total

ClampStart(s, total) ==
    Max(0, Min(IF s # NoValue THEN ValueOf(s) ELSE 0, total - 1))

ClampEnd(e, start, total) ==
    Max(start, Min(IF e # NoValue THEN ValueOf(e) ELSE total - 1, total - 1))

start_frame == ClampStart(cfg.start_frame, total_frames)
end_frame == ClampEnd(cfg.end_frame, start_frame, total_frames)
frames_to_render == end_frame - start_frame + 1

\* fault variant: the first frame of the range is left out
InRange_Exclusive(f) == start_frame < f /\ f <= end_frame
\* if start_frame <= absolute_frame <= end_frame
InRange(f) == start_frame <= f /\ f <= end_frame

\* fault variant: the first image is held like every other image
current_hold_frames_Uniform(i) == hold_frames
\* current_hold_frames = first_hold_frames if img_idx == 0 else hold_frames
current_hold_frames(i) == IF i = 0 THEN first_hold_frames ELSE hold_frames

\* the raster render_frame(images, i, 0) returns
HoldRaster(i) == [img |-> i, off |-> <<0, 1>>]
\* the raster _render_with_motion_blur(images, i, easing(k / T), step) returns
TransOffset(k) == easing_func(cfg.easing, k, transition_frames)
TransRaster(i, k) == [img |-> i, off |-> TransOffset(k)]

Tagged(raster, f) == [abs |-> f, img |-> raster.img, off |-> raster.off]

\* fault variant: the sub-sample offset is not capped
render_subframe_Uncapped(base_offset, i) ==
    LET m == cfg.motion_blur
        T == transition_frames
    IN  <<base_offset[1] * m * T + i * base_offset[2], base_offset[2] * m * T>>

\* render_subframe(i): sub_offset =
\*     min(base_offset + (i / num_samples) * step_size, 1.0)
\* with step_size = 1.0 / transition_frames
render_subframe(base_offset, i) ==
    LET m == cfg.motion_blur
        T == transition_frames
        sum == <<base_offset[1] * m * T + i * base_offset[2],
                 base_offset[2] * m * T>>
    IN  IF sum[1] > sum[2] THEN <<1, 1>> ELSE sum

\* the offsets _render_with_motion_blur passes to render_frame: the base
\* offset when motion_blur <= 0, else one sub-sample for each i in
\* range(num_samples) (listed by i; with three samples or more a thread
\* pool makes the calls)
BlurOffsets(base_offset) ==
    IF cfg.motion_blur <= 0
      THEN <<base_offset>>
      ELSE [j \in 1 .. cfg.motion_blur |-> render_subframe(base_offset, j - 1)]

\* the render_frame calls of a hold frame and of a transition frame: the
\* frame they are made for, the center image, the offset passed, the
\* frame's base offset and its phase
HoldCalls(i) ==
    <<[abs |-> absolute_frame, img |-> i, off |-> <<0, 1>>,
       base |-> <<0, 1>>, hold |-> TRUE]>>
TransCalls(i, k) ==
    LET offs == BlurOffsets(TransOffset(k))
    IN  [j \in 1 .. Len(offs) |->
            [abs |-> absolute_frame, img |-> i, off |-> offs[j],
             base |-> TransOffset(k), hold |-> FALSE]]

(***************************************************************************)
(* Inputs.                                                                 *)
(***************************************************************************)
FrameArgs == {NoValue} \cup {Some(n) : n \in {-1} \cup (1 .. MaxArg)}
\* the exhaustive small configurations use one easing, selected by a name
\* EASING_FUNCTIONS does not hold; the hand-picked ones use others
EasingChoices == {"easing_unknown"}

\* The fields of Config the model reads, with the defaults of main.py;
\* num_images is len(images), narrow the indexes of the images that are one
\* pixel wide after pre-scaling, reflection stands for reflection > 0
BaseConfig ==
    [num_images |-> 1, first_hold |-> NoValue, hold |-> Whole(2),
     transition |-> Whole(2), fps |-> 30, loop |-> FALSE, repeat |-> FALSE,
     start_frame |-> NoValue, end_frame |-> NoValue,
     easing |-> "ease_in_out_cubic", motion_blur |-> 0,
     visible_range |-> 3, reflection |-> TRUE, statistics |-> FALSE,
     preview |-> NoValue, narrow |-> {}]

\* every small timeline, at one frame per second; the command line sets
\* repeat whenever loop is set
SmallConfigs ==
    {[BaseConfig EXCEPT !.num_images = n, !.first_hold = Some(Whole(fh)),
                        !.hold = Whole(h), !.transition = Whole(t),
                        !.fps = 1, !.loop = l, !.repeat = l,
                        !.start_frame = s, !.end_frame = e, !.easing = ea] :
        n \in 1 .. MaxImages, fh \in 0 .. MaxFrames, h \in 0 .. MaxFrames,
        t \in 0 .. MaxFrames, l \in BOOLEAN, s \in FrameArgs,
        e \in FrameArgs, ea \in EasingChoices}

\* N=5 images, hold 2 s, transition 1 s at 10 fps; the first 32 frames are
\* requested, two more than the queue holds
ExampleConfig ==
    [BaseConfig EXCEPT !.num_images = 5, !.hold = Whole(2),
                       !.transition = Whole(1), !.fps = 10,
                       !.end_frame = Some(31)]

\* a short run for each of the other polynomial easings
EasingConfigs ==
    {[BaseConfig EXCEPT !.num_images = 2, !.first_hold = Some(<<1, 4>>),
                        !.hold = Whole(0), !.transition = <<3, 4>>,
                        !.fps = 4, !.easing = e] :
        e \in EASING_FUNCTIONS \ {"ease_in_out_cubic", "ease_out_quad"}}

\* longer transitions, a first hold that differs from the later holds, a
\* loop transition, two motion-blur samples per transition frame and a
\* sub-range that starts and ends inside transitions
LoopConfig ==
    [BaseConfig EXCEPT !.num_images = 3, !.first_hold = Some(<<1, 4>>),
                       !.hold = <<1, 2>>, !.transition = <<3, 4>>,
                       !.fps = 4, !.loop = TRUE, !.repeat = TRUE,
                       !.start_frame = Some(2), !.end_frame = Some(12),
                       !.easing = "ease_out_quad", !.motion_blur = 2,
                       !.visible_range = 1]

\* durations whose product with fps is not a whole number of frames
FractionConfigs ==
    {[BaseConfig EXCEPT !.num_images = 2, !.first_hold = fh,
                        !.hold = <<3, 4>>, !.transition = <<1, 2>>,
                        !.fps = f] :
        fh \in {NoValue, Some(<<1, 4>>)}, f \in {3, 5}}

\* the playback frame of the GUI: "loop" checked, "repeat" not
PlaybackConfig ==
    [BaseConfig EXCEPT !.num_images = 3, !.first_hold = Some(Whole(0)),
                       !.hold = Whole(0), !.transition = <<1, 2>>,
                       !.fps = 4, !.loop = TRUE, !.repeat = FALSE]

\* timelines for the statistics and preview modes: an empty one with no
\* hold and no transition, an empty one with a hold, and the one of
\* LoopConfig
ModeTimelines ==
    {[BaseConfig EXCEPT !.num_images = 2, !.hold = Whole(0),
                        !.transition = Whole(0), !.fps = 4],
     [BaseConfig EXCEPT !.num_images = 1, !.first_hold = Some(Whole(0)),
                        !.hold = <<1, 4>>, !.transition = Whole(0),
                        !.fps = 4],
     [LoopConfig EXCEPT !.start_frame = NoValue, !.end_frame = NoValue]}

\* --statistics, with and without --preview; --preview with a frame
\* number (negative, inside the timeline, past its end) or with seconds
ModeConfigs ==
    {[c EXCEPT !.statistics = TRUE, !.preview = p] :
        c \in ModeTimelines, p \in {NoValue, Some(Whole(2))}}
    \cup {[c EXCEPT !.preview = Some(p)] :
            c \in ModeTimelines,
            p \in {Whole(-1), Whole(0), Whole(5), <<5, 2>>, Whole(100)}}

Configs ==
    SmallConfigs \cup EasingConfigs \cup FractionConfigs \cup ModeConfigs
        \cup {ExampleConfig, LoopConfig, PlaybackConfig}

\* _render_with_motion_blur is not running and nothing is cached yet
NoBlur ==
    /\ blur_args = NoValue
    /\ blur_pc = "idle"
    /\ next_task = 0
    /\ workers = <<>>
    /\ sub_frames = <<>>
    /\ perspective_cache = {}
    /\ blurred = NoValue

NoCalls == helper_calls = <<>>

\* generate() not yet called, the encoder thread not yet started
InitPipeline ==
    /\ pc = "start"
    /\ img_idx = 0
    /\ frame = 0
    /\ absolute_frame = 0
    /\ generation_complete = FALSE
    /\ hold_frame_rgb = NoValue
    /\ queue = <<>>
    /\ done = FALSE
    /\ error = None
    /\ out = "unopened"
    /\ cancel_flag = FALSE
    /\ cpc = "idle"
    /\ cframe = NoValue
    /\ frames_written = 0
    /\ enqueued = <<>>
    /\ written = <<>>
    /\ callbacks = <<>>
    /\ printed = None
    /\ inspected = NoValue
    /\ completions = <<>>
    /\ puts_after_cancel = 0
    /\ render_calls = <<>>
    /\ reported = NoValue

Init ==
    /\ cfg \in Configs
    /\ InitPipeline
    /\ arrays = <<>>
    /\ cached_background = NoValue
    /\ scaled_images_cache = <<>>
    /\ canvases = <<>>
    /\ preview_results = <<>>
    /\ NoBlur
    /\ NoCalls

(***************************************************************************)
(* The hand-off queue (queue.Queue(maxsize=max_size)).                      *)
(***************************************************************************)
\* fault variant: an unbounded queue (maxsize=0)
QueueFull_Unbounded(q) == FALSE
\* Queue.put blocks while the queue is full
QueueFull(q) == Len(q) >= MaxSize
\* fault variant: a LIFO queue
QueuePut_Lifo(q, f) == <<f>> \o q
QueuePut(q, f) == Append(q, f)
\* Queue.get removes the oldest element
QueueGetItem(q) == Head(q)
QueueGetRest(q) == Tail(q)
\* fault variant: the consumer leaves as soon as "done" is set
QueueEmpty_Ignored(q) == TRUE
\* Queue.empty()
QueueEmpty(q) == Len(q) = 0

(***************************************************************************)
(* Producer: VideoWorker._run -> VideoGenerator.generate.                  *)
(***************************************************************************)
\* fault variant: the cancellation flag is not handed to generate()
CancelObserved_NoFlag == FALSE
\* if cancel_flag and cancel_flag.is_set()
CancelObserved == cancel_flag

\* fault variant: the preview test comes first
Mode_PreviewFirst ==
    IF cfg.preview # NoValue THEN "preview"
    ELSE IF cfg.statistics THEN "statistics" ELSE "video"

\* if self.config.statistics: ... return; if self.config.preview is not
\* None: ... return; else the video is generated
Mode ==
    IF cfg.statistics THEN "statistics"
    ELSE IF cfg.preview # NoValue THEN "preview" ELSE "video"

\* statistics mode, lines 189-196: the counts are printed
Statistics ==
    /\ pc = "start"
    /\ Mode = "statistics"
    /\ reported' = Some([images |-> num_images,
                         total_frames |-> total_frames,
                         duration |-> <<total_frames, cfg.fps>>])
    /\ printed' = "statistics"
    /\ pc' = "returned"
    /\ UNCHANGED <<cfg, rendVars, guiVars, blurVars, callVars, prodVars, queue, done, out, cancel_flag,
                   consVars, histVars, inspected, completions>>

\* preview mode, lines 201-210: a whole number is a frame number, any
\* other value is seconds; the frame is clamped
target_frame ==
    LET preview == ValueOf(cfg.preview)
        asked == IF preview[1] % preview[2] = 0
                   THEN int(preview)
                   ELSE int(Times(preview, cfg.fps))
    IN  Max(0, Min(asked, total_frames - 1))

\* preview mode, lines 212-238: the image and the offset of the frame
PreviewLookup(target) ==
    LET first_segment == first_hold_frames + transition_frames
        regular_segment == hold_frames + transition_frames
        past == target >= first_segment
        remaining == target - first_segment
        idx == IF past THEN 1 + (remaining \div regular_segment) ELSE 0
        frame_in_segment == IF past THEN remaining % regular_segment
                                    ELSE target
        current == IF past THEN hold_frames ELSE first_hold_frames
        trans_frame == frame_in_segment - current
        offset == IF frame_in_segment < current THEN <<0, 1>>
                  ELSE IF transition_frames > 0
                         THEN easing_func(cfg.easing, trans_frame,
                                          transition_frames)
                         ELSE easing_func(cfg.easing, 0, 1)
    IN  [abs |-> target, img |-> Min(idx, num_images - 1), off |-> offset,
         base |-> offset, hold |-> frame_in_segment < current]

\* remaining // regular_segment with regular_segment = 0
LookupDividesByZero(target) ==
    /\ target >= first_hold_frames + transition_frames
    /\ hold_frames + transition_frames = 0

PreviewDividesByZero == LookupDividesByZero(target_frame)

\* preview mode, lines 199-243: one frame is rendered and saved as
\* preview.jpg
Preview ==
    /\ pc = "start"
    /\ Mode = "preview"
    /\ ~PreviewDividesByZero
    /\ render_calls' = Append(render_calls, PreviewLookup(target_frame))
    /\ printed' = "preview"
    /\ pc' = "returned"
    /\ UNCHANGED <<cfg, rendVars, guiVars, blurVars, callVars, reported, prodVars, queue, done, out,
                   cancel_flag, consVars, enqueued, puts_after_cancel,
                   inspected, completions>>

\* preview mode: the lookup raises ZeroDivisionError
PreviewFails ==
    /\ pc = "start"
    /\ Mode = "preview"
    /\ PreviewDividesByZero
    /\ pc' = "raised"
    /\ UNCHANGED <<cfg, rendVars, guiVars, blurVars, callVars, reported, prodVars, queue, done, out,
                   cancel_flag, consVars, histVars, endVars>>

\* VideoWorker._run: loader.load_images() finds no source folder, no image
\* file or no loadable image, prints the error and calls sys.exit(1); the
\* SystemExit is not an Exception and ends the worker thread
LoadImagesFails ==
    /\ pc = "start"
    /\ printed' = "load_error"
    /\ pc' = "load_exit"
    /\ UNCHANGED <<cfg, rendVars, guiVars, blurVars, callVars, reported, prodVars, queue, done,
                   out, cancel_flag, consVars, histVars, inspected,
                   completions>>

\* imageio.get_writer succeeds; the encoder thread is started
OpenWriter ==
    /\ pc = "start"
    /\ Mode = "video"
    /\ out' = "open"
    /\ cpc' = "check_done"
    /\ absolute_frame' = 0
    /\ generation_complete' = FALSE
    /\ img_idx' = 0
    /\ pc' = "img_loop"
    /\ UNCHANGED <<cfg, rendVars, guiVars, blurVars, callVars, reported, frame, hold_frame_rgb, queue, done, error,
                   cancel_flag, cframe, frames_written, written, callbacks,
                   histVars, endVars>>

\* fault variant: the error is printed and generate() goes on
OpenWriterFails_Swallowed ==
    /\ pc = "start"
    /\ Mode = "video"
    /\ printed' = "error"
    /\ cpc' = "check_done"
    /\ pc' = "img_loop"
    /\ UNCHANGED <<cfg, rendVars, guiVars, blurVars, callVars, reported, prodVars, queue, done, out,
                   cancel_flag, cframe, frames_written, written, callbacks,
                   error, histVars, inspected, completions>>

\* imageio.get_writer raises: "Error: Could not create video file" is
\* printed and sys.exit(1) ends the thread that called generate()
OpenWriterFails ==
    /\ pc = "start"
    /\ Mode = "video"
    /\ printed' = "error"
    /\ pc' = "sysexit"
    /\ UNCHANGED <<cfg, rendVars, guiVars, blurVars, callVars, reported, prodVars, queue, done, out,
                   cancel_flag, consVars, histVars, inspected, completions>>

\* for img_idx in range(num_images): ... cancellation check, lines 299-317;
\* after the last image, the loop-transition test of line 381
ImgLoop ==
    /\ pc = "img_loop"
    /\ IF img_idx >= num_images
         THEN /\ pc' = IF cfg.loop /\ ~generation_complete
                         THEN "loop_loop" ELSE "finish"
              /\ frame' = 0
              /\ UNCHANGED hold_frame_rgb
         ELSE IF CancelObserved
                THEN /\ pc' = "cancel_done"
                     /\ UNCHANGED <<frame, hold_frame_rgb>>
                ELSE /\ pc' = "hold_loop"
                     /\ frame' = 0
                     /\ hold_frame_rgb' = NoValue
    /\ UNCHANGED <<cfg, rendVars, guiVars, blurVars, callVars, reported, img_idx, absolute_frame, generation_complete, queue,
                   done, out, cancel_flag, consVars, histVars, endVars>>

\* for frame in range(current_hold_frames): ... cancellation check,
\* lines 319-326; when the range is exhausted, lines 345-351
HoldLoop ==
    /\ pc = "hold_loop"
    /\ IF frame >= current_hold_frames(img_idx)
         THEN IF img_idx < num_images - 1
                THEN /\ pc' = "trans_loop"
                     /\ frame' = 0
                     /\ UNCHANGED img_idx
                ELSE /\ pc' = "img_loop"
                     /\ img_idx' = img_idx + 1
                     /\ UNCHANGED frame
         ELSE /\ pc' = IF CancelObserved THEN "cancel_done" ELSE "hold_body"
              /\ UNCHANGED <<img_idx, frame>>
    /\ UNCHANGED <<cfg, rendVars, guiVars, blurVars, callVars, reported, absolute_frame, generation_complete, hold_frame_rgb,
                   queue, done, out, cancel_flag, consVars, histVars, endVars>>

\* frame_buffer.queue.put(raster) for an in-range frame, then
\* absolute_frame += 1 and the end-frame test
PutAndAdvance(raster, calls, loopPc, setsComplete) ==
    /\ IF InRange(absolute_frame)
         THEN /\ ~QueueFull(queue)
              /\ render_calls' = render_calls \o calls
              /\ queue' = QueuePut(queue, Tagged(raster, absolute_frame))
              /\ enqueued' = Append(enqueued, Tagged(raster, absolute_frame))
              /\ puts_after_cancel' =
                     IF cancel_flag THEN puts_after_cancel + 1
                                    ELSE puts_after_cancel
         ELSE UNCHANGED <<queue, histVars>>
    /\ absolute_frame' = absolute_frame + 1
    /\ IF absolute_frame + 1 > end_frame
         THEN /\ pc' = "finish"
              /\ generation_complete' = (setsComplete \/ generation_complete)
              /\ UNCHANGED frame
         ELSE /\ pc' = loopPc
              /\ frame' = frame + 1
              /\ UNCHANGED generation_complete

\* hold phase body, lines 328-343
HoldBody ==
    /\ pc = "hold_body"
    /\ LET raster == IF hold_frame_rgb = NoValue THEN HoldRaster(img_idx)
                                                ELSE ValueOf(hold_frame_rgb)
           calls == IF hold_frame_rgb = NoValue THEN HoldCalls(img_idx)
                                               ELSE <<>>
       IN  /\ PutAndAdvance(raster, calls, "hold_loop", TRUE)
           /\ hold_frame_rgb' = IF InRange(absolute_frame) THEN Some(raster)
                                                           ELSE hold_frame_rgb
    /\ UNCHANGED <<cfg, rendVars, guiVars, blurVars, callVars, reported, img_idx, done, out, cancel_flag, consVars, endVars>>

\* for frame in range(transition_frames): ... cancellation check,
\* lines 352-359
TransLoop ==
    /\ pc = "trans_loop"
    /\ IF frame >= transition_frames
         THEN /\ pc' = "img_loop"
              /\ img_idx' = img_idx + 1
         ELSE /\ pc' = IF CancelObserved THEN "cancel_done" ELSE "trans_body"
              /\ UNCHANGED img_idx
    /\ UNCHANGED <<cfg, rendVars, guiVars, blurVars, callVars, reported, frame, absolute_frame, generation_complete,
                   hold_frame_rgb, queue, done, out, cancel_flag, consVars,
                   histVars, endVars>>

\* transition phase body, lines 361-378
TransBody ==
    /\ pc = "trans_body"
    /\ PutAndAdvance(TransRaster(img_idx, frame),
                     TransCalls(img_idx, frame), "trans_loop", TRUE)
    /\ UNCHANGED <<cfg, rendVars, guiVars, blurVars, callVars, reported, img_idx, hold_frame_rgb, done, out, cancel_flag,
                   consVars, endVars>>

\* loop transition: for frame in range(transition_frames): ...
\* cancellation check, lines 384-391
LoopLoop ==
    /\ pc = "loop_loop"
    /\ pc' = IF frame >= transition_frames THEN "finish"
             ELSE IF CancelObserved THEN "cancel_done" ELSE "loop_body"
    /\ UNCHANGED <<cfg, rendVars, guiVars, blurVars, callVars, reported, prodVars, queue, done, out, cancel_flag, consVars,
                   histVars, endVars>>

\* loop transition body, lines 393-409
LoopBody ==
    /\ pc = "loop_body"
    /\ PutAndAdvance(TransRaster(num_images - 1, frame),
                     TransCalls(num_images - 1, frame), "loop_loop", FALSE)
    /\ UNCHANGED <<cfg, rendVars, guiVars, blurVars, callVars, reported, img_idx, hold_frame_rgb, done, out, cancel_flag,
                   consVars, endVars>>

\* render_frame raises while an in-range frame is rendered: the exception
\* leaves generate()
RenderFails ==
    /\ \/ pc = "hold_body" /\ hold_frame_rgb = NoValue
       \/ pc \in {"trans_body", "loop_body"}
    /\ InRange(absolute_frame)
    /\ pc' = "raised"
    /\ UNCHANGED <<cfg, rendVars, guiVars, blurVars, callVars, reported, prodVars, queue, done, out, cancel_flag, consVars,
                   histVars, endVars>>

\* frame_buffer.done.set(), line 412
Finish ==
    /\ pc = "finish"
    /\ done' = TRUE
    /\ pc' = "join"
    /\ UNCHANGED <<cfg, rendVars, guiVars, blurVars, callVars, reported, prodVars, queue, out, cancel_flag, consVars,
                   histVars, endVars>>

\* encoder_thread.join(timeout=...) returns: the thread has ended, or the
\* timeout has passed while it was still running
JoinReturns == TRUE

\* encoder_thread.join(timeout=30.0), line 413
Join ==
    /\ pc = "join"
    /\ JoinReturns
    /\ pc' = "check_error"
    /\ UNCHANGED <<cfg, rendVars, guiVars, blurVars, callVars, reported, prodVars, queue, done, out, cancel_flag, consVars,
                   histVars, endVars>>

\* if frame_buffer.error: print warning, lines 416-417
CheckError ==
    /\ pc = "check_error"
    /\ inspected' = Some(error)
    /\ pc' = "close"
    /\ UNCHANGED <<cfg, rendVars, guiVars, blurVars, callVars, reported, prodVars, queue, done, out, cancel_flag, consVars,
                   histVars, printed, completions>>

\* out.close(); print("Video saved ..."), lines 419-420
Close ==
    /\ pc = "close"
    /\ out' = "closed"
    /\ printed' = "saved"
    /\ pc' = "returned"
    /\ UNCHANGED <<cfg, rendVars, guiVars, blurVars, callVars, reported, prodVars, queue, done, cancel_flag, consVars,
                   histVars, inspected, completions>>

\* cancellation observed: frame_buffer.done.set()
CancelSetDone ==
    /\ pc = "cancel_done"
    /\ done' = TRUE
    /\ pc' = "cancel_join"
    /\ UNCHANGED <<cfg, rendVars, guiVars, blurVars, callVars, reported, prodVars, queue, out, cancel_flag, consVars,
                   histVars, endVars>>

\* cancellation observed: encoder_thread.join(timeout=5.0)
CancelJoin ==
    /\ pc = "cancel_join"
    /\ JoinReturns
    /\ pc' = "cancel_close"
    /\ UNCHANGED <<cfg, rendVars, guiVars, blurVars, callVars, reported, prodVars, queue, done, out, cancel_flag, consVars,
                   histVars, endVars>>

\* cancellation observed: out.close(); print("Video generation cancelled.")
CancelClose ==
    /\ pc = "cancel_close"
    /\ out' = "closed"
    /\ printed' = "cancelled"
    /\ pc' = "returned"
    /\ UNCHANGED <<cfg, rendVars, guiVars, blurVars, callVars, reported, prodVars, queue, done, cancel_flag, consVars,
                   histVars, inspected, completions>>

\* fault variant: _run reports success without looking at the flag
CompletionReport_Success == <<TRUE, None>>
\* the outcome _run reports after generate() has returned
CompletionReport ==
    IF cancel_flag THEN <<FALSE, "Cancelled by user">> ELSE <<TRUE, None>>

\* VideoWorker._run after generate() returned, lines 64-67
WorkerComplete ==
    /\ pc = "returned"
    /\ completions' = Append(completions, CompletionReport)
    /\ pc' = "finished"
    /\ UNCHANGED <<cfg, rendVars, guiVars, blurVars, callVars, reported, prodVars, queue, done, out, cancel_flag, consVars,
                   histVars, printed, inspected>>

\* VideoWorker._run: except Exception as e: on_complete(False, str(e))
WorkerExcept ==
    /\ pc = "raised"
    /\ completions' = Append(completions, <<FALSE, "exception">>)
    /\ pc' = "finished"
    /\ UNCHANGED <<cfg, rendVars, guiVars, blurVars, callVars, reported, prodVars, queue, done, out, cancel_flag, consVars,
                   histVars, printed, inspected>>

Producer ==
    \/ Statistics \/ Preview
    \/ OpenWriter \/ ImgLoop \/ HoldLoop \/ HoldBody \/ TransLoop
    \/ TransBody \/ LoopLoop \/ LoopBody \/ Finish \/ Join \/ CheckError
    \/ Close \/ CancelSetDone \/ CancelJoin \/ CancelClose
    \/ WorkerComplete

(***************************************************************************)
(* User interface thread: VideoWorker.cancel().                            *)
(***************************************************************************)
UserCancel ==
    /\ pc \notin {"finished", "sysexit", "load_exit"}
    /\ ~cancel_flag
    /\ cancel_flag' = TRUE
    /\ UNCHANGED <<cfg, rendVars, guiVars, blurVars, callVars, reported, pc, prodVars, queue, done, out, consVars, histVars,
                   endVars>>

(***************************************************************************)
(* Consumer: VideoGenerator._encode_frames (the encoder thread).           *)
(***************************************************************************)
\* if buffer.done.is_set() and ...: the first operand
CheckDone ==
    /\ cpc = "check_done"
    /\ cpc' = IF done THEN "check_empty" ELSE "get"
    /\ UNCHANGED <<cfg, rendVars, guiVars, blurVars, callVars, reported, pc, prodVars, queue, done, out, cancel_flag, cframe,
                   frames_written, written, callbacks, error, histVars,
                   endVars>>

\* ... and buffer.queue.empty(): break
CheckEmpty ==
    /\ cpc = "check_empty"
    /\ cpc' = IF QueueEmpty(queue) THEN "exited" ELSE "get"
    /\ UNCHANGED <<cfg, rendVars, guiVars, blurVars, callVars, reported, pc, prodVars, queue, done, out, cancel_flag, cframe,
                   frames_written, written, callbacks, error, histVars,
                   endVars>>

\* frame = buffer.queue.get(timeout=0.1): a frame is available
Get ==
    /\ cpc = "get"
    /\ Len(queue) > 0
    /\ cframe' = Some(QueueGetItem(queue))
    /\ queue' = QueueGetRest(queue)
    /\ cpc' = "write"
    /\ UNCHANGED <<cfg, rendVars, guiVars, blurVars, callVars, reported, pc, prodVars, done, out, cancel_flag, frames_written,
                   written, callbacks, error, histVars, endVars>>

\* buffer.queue.get(timeout=0.1) raises Empty: continue
GetTimeout ==
    /\ cpc = "get"
    /\ Len(queue) = 0
    /\ cpc' = "check_done"
    /\ UNCHANGED <<cfg, rendVars, guiVars, blurVars, callVars, reported, pc, prodVars, queue, done, out, cancel_flag, cframe,
                   frames_written, written, callbacks, error, histVars,
                   endVars>>

\* writer.append_data(frame) succeeds; frames_written += 1
Write ==
    /\ cpc = "write"
    /\ out = "open"
    /\ written' = Append(written, ValueOf(cframe))
    /\ frames_written' = frames_written + 1
    /\ cpc' = "callback"
    /\ UNCHANGED <<cfg, rendVars, guiVars, blurVars, callVars, reported, pc, prodVars, queue, done, out, cancel_flag, cframe,
                   callbacks, error, histVars, endVars>>

\* fault variant: the exception is caught inside the loop, which goes on
CaptureError_Continue(e) ==
    /\ error' = e
    /\ cpc' = "check_done"

\* except Exception as e: buffer.error = e; the thread ends
CaptureError(e) ==
    /\ error' = e
    /\ cpc' = "exited"

\* writer.append_data(frame) raises (the encoder fails, or the writer has
\* been closed)
WriteFails ==
    /\ cpc = "write"
    /\ CaptureError("EncoderError")
    /\ UNCHANGED <<cfg, rendVars, guiVars, blurVars, callVars, reported, pc, prodVars, queue, done, out, cancel_flag, cframe,
                   frames_written, written, callbacks, histVars, endVars>>

\* fault variant: the total of the whole timeline is reported
ProgressArgs_WholeTimeline == <<frames_written, total_frames>>
\* progress_callback(frames_written, frames_to_render)
ProgressArgs == <<frames_written, frames_to_render>>

Callback ==
    /\ cpc = "callback"
    /\ callbacks' = Append(callbacks, ProgressArgs)
    /\ cpc' = "check_done"
    /\ UNCHANGED <<cfg, rendVars, guiVars, blurVars, callVars, reported, pc, prodVars, queue, done, out, cancel_flag, cframe,
                   frames_written, written, error, histVars, endVars>>

\* progress_callback(...) raises
CallbackFails ==
    /\ cpc = "callback"
    /\ callbacks' = Append(callbacks, ProgressArgs)
    /\ CaptureError("CallbackError")
    /\ UNCHANGED <<cfg, rendVars, guiVars, blurVars, callVars, reported, pc, prodVars, queue, done, out, cancel_flag, cframe,
                   frames_written, written, histVars, endVars>>

Consumer == CheckDone \/ CheckEmpty \/ Get \/ GetTimeout \/ Write \/ Callback

Failure ==
    LoadImagesFails \/ OpenWriterFails \/ PreviewFails \/ RenderFails \/ WorkerExcept
    \/ WriteFails \/ CallbackFails

Next == Producer \/ Consumer \/ UserCancel \/ Failure

Spec == Init /\ [][Next]_vars

\* "Warning: Encoder error occurred" is printed
warned == inspected # NoValue /\ ValueOf(inspected) # None

\* runs in which nothing fails, with both threads scheduled fairly
NextLive == Producer \/ Consumer \/ UserCancel

LiveSpec == Init /\ [][NextLive]_vars /\ WF_vars(Producer) /\ WF_vars(Consumer)

(***************************************************************************)
(* The single-frame preview of the GUI: PreviewWorker._run                 *)
(* (gui/workers/preview_worker.py), which looks up the image and the       *)
(* offset of one frame of the timeline and renders it.                     *)
(***************************************************************************)
MaxFrameNumber == 14    \* frame numbers asked of the preview, -1..MaxFrameNumber

\* the frame count without the loop transition, lines 72-75
regular_frames ==
    IF num_images > 1
      THEN first_hold_frames + (num_images - 1) * hold_frames
               + (num_images - 1) * transition_frames
      ELSE first_hold_frames

\* frame = max(0, min(self.frame_number, total_frames - 1)), line 69
PreviewWorkerFrame(frame_number) ==
    LET total == calculate_total_frames(cfg, num_images)
    IN  Max(0, Min(frame_number, total - 1))

\* offset = trans_frame / transition_frames if transition_frames > 0 else 0;
\* offset = easing_func(offset)
PreviewWorkerOffset(trans_frame) ==
    IF transition_frames > 0
      THEN easing_func(cfg.easing, trans_frame, transition_frames)
      ELSE easing_func(cfg.easing, 0, 1)

\* fault variant: the image index of a frame past the first segment
\* counts from zero
PreviewWorkerLookup_FromZero(fr) ==
    IF cfg.loop /\ fr >= regular_frames
      THEN [abs |-> fr, img |-> num_images - 1,
            off |-> PreviewWorkerOffset(fr - regular_frames)]
      ELSE LET first_segment == first_hold_frames + transition_frames
               regular_segment == hold_frames + transition_frames
               past == fr >= first_segment
               remaining == fr - first_segment
               idx == IF past THEN remaining \div regular_segment ELSE 0
               frame_in_segment == IF past THEN remaining % regular_segment
                                           ELSE fr
               current == IF past THEN hold_frames ELSE first_hold_frames
           IN  [abs |-> fr, img |-> Min(idx, num_images - 1),
                off |-> IF frame_in_segment < current THEN <<0, 1>>
                        ELSE PreviewWorkerOffset(frame_in_segment - current)]

\* lines 77-113: the image and the offset of the clamped frame
PreviewWorkerLookup(fr) ==
    IF cfg.loop /\ fr >= regular_frames
      THEN [abs |-> fr, img |-> num_images - 1,
            off |-> PreviewWorkerOffset(fr - regular_frames)]
      ELSE LET first_segment == first_hold_frames + transition_frames
               regular_segment == hold_frames + transition_frames
               past == fr >= first_segment
               remaining == fr - first_segment
               idx == IF past THEN 1 + (remaining \div regular_segment) ELSE 0
               frame_in_segment == IF past THEN remaining % regular_segment
                                           ELSE fr
               current == IF past THEN hold_frames ELSE first_hold_frames
           IN  [abs |-> fr, img |-> Min(idx, num_images - 1),
                off |-> IF frame_in_segment < current THEN <<0, 1>>
                        ELSE PreviewWorkerOffset(frame_in_segment - current)]

\* remaining // regular_segment with regular_segment = 0, line 98
PreviewWorkerDividesByZero(fr) ==
    /\ ~(cfg.loop /\ fr >= regular_frames)
    /\ fr >= first_hold_frames + transition_frames
    /\ hold_frames + transition_frames = 0

\* PreviewWorker(config, frame_number, on_complete).start(): the frame is
\* rendered and on_complete(canvas, None) is called
PreviewWorkerRun ==
    /\ preview_results = <<>>
    /\ \E frame_number \in -1 .. MaxFrameNumber :
          LET fr == PreviewWorkerFrame(frame_number)
          IN  /\ ~PreviewWorkerDividesByZero(fr)
              /\ preview_results' =
                     Append(preview_results,
                            [frame_number |-> frame_number,
                             canvas |-> Some(PreviewWorkerLookup(fr))])
    /\ UNCHANGED <<cfg, rendVars, pipeVars, blurVars, callVars>>

\* the lookup raises ZeroDivisionError: except Exception as e:
\* on_complete(None, str(e))
PreviewWorkerFails ==
    /\ preview_results = <<>>
    /\ \E frame_number \in -1 .. MaxFrameNumber :
          /\ PreviewWorkerDividesByZero(PreviewWorkerFrame(frame_number))
          /\ preview_results' =
                 Append(preview_results,
                        [frame_number |-> frame_number, canvas |-> NoValue])
    /\ UNCHANGED <<cfg, rendVars, pipeVars, blurVars, callVars>>

\* every small timeline rendered in full, at one frame per second
SmallTimelines ==
    {[BaseConfig EXCEPT !.num_images = n, !.first_hold = Some(Whole(fh)),
                        !.hold = Whole(h), !.transition = Whole(t),
                        !.fps = 1, !.loop = l, !.repeat = l, !.easing = ea] :
        n \in 1 .. MaxImages, fh \in 0 .. MaxFrames, h \in 0 .. MaxFrames,
        t \in 0 .. MaxFrames, l \in BOOLEAN, ea \in EasingChoices}

\* timelines with longer transitions: one image with a loop transition,
\* three images with and without it, and the default first hold
LongTimelines ==
    {[BaseConfig EXCEPT !.num_images = 1, !.first_hold = Some(<<1, 2>>),
                        !.hold = Whole(0), !.transition = <<3, 4>>,
                        !.fps = 4, !.loop = TRUE, !.repeat = TRUE,
                        !.easing = "linear"],
     [LoopConfig EXCEPT !.start_frame = NoValue, !.end_frame = NoValue],
     [LoopConfig EXCEPT !.start_frame = NoValue, !.end_frame = NoValue,
                        !.loop = FALSE, !.repeat = FALSE,
                        !.first_hold = NoValue],
     PlaybackConfig}

\* the same timelines, each also with --preview set to every frame number
LookupConfigs ==
    SmallTimelines \cup LongTimelines
        \cup {[c EXCEPT !.preview = Some(Whole(f))] :
                 c \in SmallTimelines \cup LongTimelines,
                 f \in 0 .. MaxFrameNumber}

LookupInit ==
    /\ cfg \in LookupConfigs
    /\ InitPipeline
    /\ arrays = <<>>
    /\ cached_background = NoValue
    /\ scaled_images_cache = <<>>
    /\ canvases = <<>>
    /\ preview_results = <<>>
    /\ NoBlur
    /\ NoCalls

\* the two single-frame lookups and the sequential loops of generate()
LookupNext ==
    \/ Preview \/ PreviewFails \/ PreviewWorkerRun \/ PreviewWorkerFails
    \/ OpenWriter \/ ImgLoop \/ HoldLoop \/ HoldBody \/ TransLoop
    \/ TransBody \/ LoopLoop \/ LoopBody

LookupSpec == LookupInit /\ [][LookupNext]_vars

(***************************************************************************)
(* The renderer: CoverflowRenderer.render_frame (coverflow/renderer.py).   *)
(* A pixel array is the sequence of the layers drawn into it, the oldest   *)
(* first; "arrays" is the heap of the arrays allocated so far, and an      *)
(* array is named by its index in it.  In the pipeline above a raster is   *)
(* named by the arguments of the render calls that made it; the arrays     *)
(* themselves are followed in RenderSpec below.                            *)
(***************************************************************************)
MaxCalls == 3       \* render_frame calls in one run of RenderSpec

Abs(x) == IF x >= 0 THEN x ELSE -x

\* position = i - offset and depth = abs(position), as fractions
Position(i, offset) == <<i * offset[2] - offset[1], offset[2]>>
Depth(i, offset) == <<Abs(i * offset[2] - offset[1]), offset[2]>>

\* fault variant: the index is never wrapped
WrapIndex_Never(config, idx) == idx

\* if self.config.repeat: img_idx = img_idx % len(images)
WrapIndex(config, idx) ==
    IF config.repeat THEN idx % config.num_images ELSE idx

\* the (depth, position, img_idx) entries the loop over
\* range(-visible_range, visible_range + 1) appends, in loop order
Collected(config, center_idx, offset) ==
    LET vr == config.visible_range
        entry(i) == [depth |-> Depth(i, offset),
                     position |-> Position(i, offset),
                     img_idx |-> WrapIndex(config, center_idx + i)]
        all == [k \in 1 .. 2 * vr + 1 |-> entry(k - vr - 1)]
        InList(e) == 0 <= e.img_idx /\ e.img_idx < config.num_images
    IN  SelectSeq(all, InList)

\* fault variant: the nearest image is painted first
RECURSIVE SortFarFirst_NearFirst(_)
SortFarFirst_NearFirst(entries) ==
    IF entries = <<>> THEN <<>>
    ELSE LET rest == SortFarFirst_NearFirst(SubSeq(entries, 1, Len(entries) - 1))
             e == entries[Len(entries)]
             k == Cardinality({j \in 1 .. Len(rest) :
                                 e.depth[1] * rest[j].depth[2]
                                     >= rest[j].depth[1] * e.depth[2]})
         IN  SubSeq(rest, 1, k) \o <<e>> \o SubSeq(rest, k + 1, Len(rest))

\* to_render.sort(key=lambda x: -x[0]): a stable sort by descending depth;
\* an entry goes behind the entries of larger or equal depth before it
RECURSIVE SortFarFirst(_)
SortFarFirst(entries) ==
    IF entries = <<>> THEN <<>>
    ELSE LET rest == SortFarFirst(SubSeq(entries, 1, Len(entries) - 1))
             e == entries[Len(entries)]
             k == Cardinality({j \in 1 .. Len(rest) :
                                 e.depth[1] * rest[j].depth[2]
                                     <= rest[j].depth[1] * e.depth[2]})
         IN  SubSeq(rest, 1, k) \o <<e>> \o SubSeq(rest, k + 1, Len(rest))

to_render(config, center_idx, offset) ==
    SortFarFirst(Collected(config, center_idx, offset))

\* the contents of the arrays the renderer starts from
SourceImage(i) ==
    <<[kind |-> "source", img_idx |-> i, position |-> <<0, 1>>]>>
Background ==
    <<[kind |-> "background", img_idx |-> -1, position |-> <<0, 1>>]>>
\* transformer.resize_to_fit / cv2.cvtColor: a new array
resize_to_fit(pixels) ==
    <<[kind |-> "scaled", img_idx |-> pixels[1].img_idx,
       position |-> <<0, 1>>]>>

\* _get_scaled_image: the cached array, or the image scaled on the fly
get_scaled_image(arrs, cache, idx) ==
    IF idx + 1 \in DOMAIN cache THEN arrs[cache[idx + 1]]
                                ELSE resize_to_fit(arrs[idx + 1])

\* apply_perspective returns None when int(w * scale) <= 0: an image one
\* pixel wide, away from the center, where scale < 1
TransformedIsNone(config, e) ==
    e.img_idx \in config.narrow /\ e.depth[1] # 0

\* fault variant: the reflection is created outside the
\* "if transformed is not None" block
LayersOf_ReflectionOutside(config, img_rgba, e) ==
    (IF TransformedIsNone(config, e) THEN <<>>
     ELSE <<[kind |-> "image", img_idx |-> img_rgba[1].img_idx,
             position |-> e.position]>>)
    \o (IF config.reflection
          THEN <<[kind |-> "reflection", img_idx |-> img_rgba[1].img_idx,
                  position |-> e.position]>>
          ELSE <<>>)

\* the layers one entry adds to the canvas: the transformed image and,
\* with reflection > 0, its reflection
LayersOf(config, img_rgba, e) ==
    IF TransformedIsNone(config, e) THEN <<>>
    ELSE <<[kind |-> "image", img_idx |-> img_rgba[1].img_idx,
            position |-> e.position]>>
         \o (IF config.reflection
               THEN <<[kind |-> "reflection", img_idx |-> img_rgba[1].img_idx,
                       position |-> e.position]>>
               ELSE <<>>)

RECURSIVE Composite(_, _, _, _)
\* for depth, position, img_idx in to_render: ... blend_onto_canvas
Composite(config, arrs, cache, entries) ==
    IF entries = <<>> THEN <<>>
    ELSE LayersOf(config, get_scaled_image(arrs, cache, Head(entries).img_idx),
                  Head(entries))
         \o Composite(config, arrs, cache, Tail(entries))

\* fault variant: the cached background itself is handed out
create_background_Shared(arrs, cached) ==
    IF cached # NoValue
      THEN [arrays |-> arrs, cached |-> cached, canvas |-> ValueOf(cached)]
      ELSE [arrays |-> arrs \o <<Background, Background>>,
            cached |-> Some(Len(arrs) + 2), canvas |-> Len(arrs) + 1]

\* _create_background: a copy of the cached background; on the first call
\* the new canvas, of which a copy is cached
create_background(arrs, cached) ==
    IF cached # NoValue
      THEN [arrays |-> Append(arrs, arrs[ValueOf(cached)]),
            cached |-> cached, canvas |-> Len(arrs) + 1]
      ELSE [arrays |-> arrs \o <<Background, Background>>,
            cached |-> Some(Len(arrs) + 2), canvas |-> Len(arrs) + 1]

\* the offsets render_frame is called with
RenderOffsets == {<<0, 1>>, <<1, 4>>, <<1, 2>>}

\* renderer.prepare_images(images)
PrepareImages ==
    /\ scaled_images_cache = <<>>
    /\ arrays' = arrays \o [i \in 1 .. num_images |-> resize_to_fit(arrays[i])]
    /\ scaled_images_cache' = [i \in 1 .. num_images |-> Len(arrays) + i]
    /\ UNCHANGED <<cfg, cached_background, canvases, pipeVars, guiVars, blurVars, callVars>>

\* renderer.render_frame(images, center_idx, offset)
RenderFrame ==
    /\ Len(canvases) < MaxCalls
    /\ \E center_idx \in 0 .. num_images - 1, offset \in RenderOffsets :
          LET bg == create_background(arrays, cached_background)
              layers == Composite(cfg, bg.arrays, scaled_images_cache,
                                  to_render(cfg, center_idx, offset))
              pixels == bg.arrays[bg.canvas] \o layers
          IN  /\ arrays' = [bg.arrays EXCEPT ![bg.canvas] = pixels]
              /\ cached_background' = bg.cached
              /\ canvases' = Append(canvases,
                                    [center_idx |-> center_idx,
                                     offset |-> offset,
                                     array |-> bg.canvas,
                                     pixels |-> pixels])
    /\ UNCHANGED <<cfg, scaled_images_cache, pipeVars, guiVars, blurVars, callVars>>

\* image lists of one and three images, with and without wraparound,
\* reflection and a one-pixel image
RenderConfigs ==
    {[BaseConfig EXCEPT !.num_images = n, !.repeat = r,
                        !.visible_range = v, !.reflection = x[1],
                        !.narrow = x[2]] :
        n \in {1, 3}, r \in BOOLEAN, v \in {1, 2},
        x \in {<<TRUE, {}>>, <<FALSE, {0}>>, <<TRUE, {0}>>}}

\* a renderer right after CoverflowRenderer(config), and the loaded images
RenderInit ==
    /\ cfg \in RenderConfigs
    /\ InitPipeline
    /\ arrays = [i \in 1 .. cfg.num_images |-> SourceImage(i - 1)]
    /\ cached_background = NoValue
    /\ scaled_images_cache = <<>>
    /\ canvases = <<>>
    /\ preview_results = <<>>
    /\ NoBlur
    /\ NoCalls

RenderNext == PrepareImages \/ RenderFrame

RenderSpec == RenderInit /\ [][RenderNext]_vars

(***************************************************************************)
(* Side effect curves (coverflow/utils.py).  Values and angles are exact   *)
(* fractions.  A power value ** x is computed where the exponent x is a    *)
(* natural number: the exponential and quadratic curves at whole angles,   *)
(* the square root curve at perfect squares, the logarithmic curve at the  *)
(* angles 2^k - 1.  The linear curves are computed at every fraction.      *)
(***************************************************************************)
RatMul(a, b) == <<a[1] * b[1], a[2] * b[2]>>
RatSub(a, b) == <<a[1] * b[2] - b[1] * a[2], a[2] * b[2]>>
RatLess(a, b) == a[1] * b[2] < b[1] * a[2]
IsWhole(x) == x[1] % x[2] = 0

\* value ** n for a natural number n
RECURSIVE Pow(_, _)
Pow(value, n) == IF n = 0 THEN <<1, 1>> ELSE RatMul(value, Pow(value, n - 1))

\* math.sqrt(angle) of a perfect square, math.log(1 + angle) / math.log(2)
\* of an angle 2^k - 1
Sqrt(angle) == CHOOSE r \in 0 .. int(angle) : r * r = int(angle)
Log2(x) == CHOOSE k \in 0 .. x : 2 ^ k = x

\* return 1.0 - (1.0 - value) * angle
decay_linear(value, angle) ==
    RatSub(<<1, 1>>, RatMul(RatSub(<<1, 1>>, value), angle))

\* return value ** angle if value > 0 else 1.0
decay_exponential(value, angle) ==
    IF value[1] > 0 THEN Pow(value, int(angle)) ELSE <<1, 1>>

\* log_factor = math.log(1 + angle) / math.log(2);
\* return value ** log_factor if value > 0 else 1.0
decay_logarithmic(value, angle) ==
    IF angle[1] <= 0 THEN <<1, 1>>
    ELSE IF value[1] > 0 THEN Pow(value, Log2(1 + int(angle))) ELSE <<1, 1>>

\* return value ** (angle * angle) if value > 0 else 1.0
decay_quadratic(value, angle) ==
    IF value[1] > 0 THEN Pow(value, int(RatMul(angle, angle))) ELSE <<1, 1>>

\* return value ** math.sqrt(angle) if value > 0 and angle >= 0 else 1.0
decay_sqrt(value, angle) ==
    IF value[1] > 0 /\ angle[1] >= 0 THEN Pow(value, Sqrt(angle))
                                     ELSE <<1, 1>>

\* return value * angle
increase_linear(value, angle) == RatMul(value, angle)

\* return value * (2 ** angle - 1), 0.0 for angle <= 0
increase_exponential(value, angle) ==
    IF angle[1] <= 0 THEN <<0, 1>>
    ELSE RatMul(value, Whole(2 ^ int(angle) - 1))

\* return value * math.log(1 + angle) / math.log(2), 0.0 for angle <= 0
increase_logarithmic(value, angle) ==
    IF angle[1] <= 0 THEN <<0, 1>>
    ELSE RatMul(value, Whole(Log2(1 + int(angle))))

\* return value * angle * angle
increase_quadratic(value, angle) == RatMul(RatMul(value, angle), angle)

\* return value * math.sqrt(angle) if angle >= 0 else 0.0
increase_sqrt(value, angle) ==
    IF angle[1] >= 0 THEN RatMul(value, Whole(Sqrt(angle))) ELSE <<0, 1>>

DECAY_CURVE_FUNCTIONS ==
    {"linear", "exponential", "logarithmic", "quadratic", "sqrt"}
INCREASE_CURVE_FUNCTIONS ==
    {"linear", "exponential", "logarithmic", "quadratic", "sqrt"}

\* DECAY_CURVE_FUNCTIONS.get(curve_name, decay_exponential)(value, angle)
apply_decay_curve(value, angle, curve_name) ==
    CASE curve_name = "linear" -> decay_linear(value, angle)
      [] curve_name = "logarithmic" -> decay_logarithmic(value, angle)
      [] curve_name = "quadratic" -> decay_quadratic(value, angle)
      [] curve_name = "sqrt" -> decay_sqrt(value, angle)
      [] OTHER -> decay_exponential(value, angle)

\* INCREASE_CURVE_FUNCTIONS.get(curve_name, increase_linear)(value, angle)
apply_increase_curve(value, angle, curve_name) ==
    CASE curve_name = "exponential" -> increase_exponential(value, angle)
      [] curve_name = "logarithmic" -> increase_logarithmic(value, angle)
      [] curve_name = "quadratic" -> increase_quadratic(value, angle)
      [] curve_name = "sqrt" -> increase_sqrt(value, angle)
      [] OTHER -> increase_linear(value, angle)

\* the values and angles the curves are applied to
CurveValues == {<<0, 1>>, <<1, 4>>, <<1, 2>>, <<3, 4>>, <<1, 1>>}
CurveAngles ==
    {<<0, 1>>, <<1, 2>>, <<1, 1>>, <<3, 2>>, <<2, 1>>, <<3, 1>>, <<4, 1>>}

\* the angles at which the power, root and logarithm of a curve are exact
\* (and value ** (angle * angle) stays within 32-bit fractions)
Computable(curve_name, angle) ==
    CASE curve_name = "linear" -> TRUE
      [] curve_name = "quadratic" -> IsWhole(angle) /\ int(angle) <= 3
      [] curve_name = "sqrt" ->
             IsWhole(angle) /\ \E r \in 0 .. int(angle) : r * r = int(angle)
      [] curve_name = "logarithmic" ->
             IsWhole(angle)
                 /\ \E k \in 0 .. int(angle) + 1 : 2 ^ k = int(angle) + 1
      [] OTHER -> IsWhole(angle)

\* apply_decay_curve(value, angle, curve_name)
ApplyDecayCurve ==
    \E value \in CurveValues, angle \in CurveAngles,
       curve_name \in DECAY_CURVE_FUNCTIONS :
        /\ Computable(curve_name, angle)
        /\ helper_calls' =
               <<[fn |-> "apply_decay_curve", curve |-> curve_name,
                  value |-> value, angle |-> angle,
                  returned |-> apply_decay_curve(value, angle, curve_name)]>>
        /\ UNCHANGED <<cfg, rendVars, pipeVars, guiVars, blurVars>>

\* apply_increase_curve(value, angle, curve_name)
ApplyIncreaseCurve ==
    \E value \in CurveValues, angle \in CurveAngles,
       curve_name \in INCREASE_CURVE_FUNCTIONS :
        /\ Computable(curve_name, angle)
        /\ helper_calls' =
               <<[fn |-> "apply_increase_curve", curve |-> curve_name,
                  value |-> value, angle |-> angle,
                  returned |-> apply_increase_curve(value, angle, curve_name)]>>
        /\ UNCHANGED <<cfg, rendVars, pipeVars, guiVars, blurVars>>

\* the positions render_frame hands to apply_perspective: i - offset for
\* a slot i in [-visible_range, visible_range] and an offset in [0, 1]
SlotPositions ==
    {<<2 * i - o, 2>> : i \in (-cfg.visible_range) .. cfg.visible_range,
                         o \in 0 .. 2}

\* apply_perspective, the alpha of a side image:
\* effective_alpha_angle = max(0, abs_angle - (side_alpha_start - 1));
\* if side_alpha < 1.0 and effective_alpha_angle > 0.01:
\*     alpha_factor = apply_decay_curve(side_alpha, effective_alpha_angle,
\*                                      side_alpha_curve)
\*     img_scaled[:, :, 3] = (img_scaled[:, :, 3] * alpha_factor)
AlphaFade ==
    \E position \in SlotPositions :
        LET abs_angle == <<Abs(position[1]), position[2]>>
            shifted == RatSub(abs_angle, Whole(cfg.side_alpha_start - 1))
            effective_alpha_angle ==
                IF shifted[1] > 0 THEN shifted ELSE <<0, 1>>
            fades == /\ RatLess(cfg.side_alpha, <<1, 1>>)
                     /\ RatLess(<<1, 100>>, effective_alpha_angle)
        IN  /\ fades => Computable(cfg.side_alpha_curve,
                                   effective_alpha_angle)
            /\ helper_calls' =
                   <<[fn |-> "alpha_fade", position |-> position,
                      angle |-> effective_alpha_angle,
                      alpha_factor |->
                          IF fades
                            THEN Some(apply_decay_curve(
                                          cfg.side_alpha,
                                          effective_alpha_angle,
                                          cfg.side_alpha_curve))
                            ELSE NoValue]>>
            /\ UNCHANGED <<cfg, rendVars, pipeVars, guiVars, blurVars>>

\* the opacity of the side images: every target, curve and start position
CurveConfigs ==
    {[side_alpha |-> a, side_alpha_curve |-> c, side_alpha_start |-> st]
        @@ [BaseConfig EXCEPT !.visible_range = 2] :
        a \in CurveValues, c \in DECAY_CURVE_FUNCTIONS, st \in {1, 2}}

CurveInit ==
    /\ cfg \in CurveConfigs
    /\ InitPipeline
    /\ arrays = <<>>
    /\ cached_background = NoValue
    /\ scaled_images_cache = <<>>
    /\ canvases = <<>>
    /\ preview_results = <<>>
    /\ NoBlur
    /\ NoCalls

CurveNext == ApplyDecayCurve \/ ApplyIncreaseCurve \/ AlphaFade

CurveSpec == CurveInit /\ [][CurveNext]_vars

(***************************************************************************)
(* Motion blur: VideoGenerator._render_with_motion_blur and the caches the *)
(* sub-frame renders share (renderer._cached_background and the class      *)
(* level ImageTransformer._perspective_cache).  Each render_frame call of  *)
(* a sub-frame is followed through its cache accesses: the test and the    *)
(* insertion are separate steps, between which other threads may run.  A   *)
(* sub-frame is the offset it was rendered at, the background it was       *)
(* painted on, the perspective matrices it used and the value of one pixel *)
(* of the result.                                                          *)
(***************************************************************************)
MaxSamples == 3     \* motion_blur values 0..MaxSamples

MIN_SAMPLES_FOR_PARALLEL == 3
MAX_WORKERS == 4

\* the values the observed pixel takes in a sub-frame
PixelValues == {254, 255}

\* two images of 4 x 4 pixels after pre-scaling, linear easing over two
\* transition frames, side images scaled linearly down to one half
BlurConfigs ==
    {[side_scale |-> <<1, 2>>, side_scale_curve |-> "linear",
      side_scale_start |-> 1, perspective |-> <<1, 1>>, mode |-> m,
      image_size |-> 4]
        @@ [BaseConfig EXCEPT !.num_images = 2, !.transition = Whole(2),
                              !.fps = 1, !.easing = "linear",
                              !.motion_blur = S, !.visible_range = 1,
                              !.reflection = FALSE] :
        S \in 0 .. MaxSamples, m \in {"arc"}}

\* the threads that render the sub-frames: the pool's workers when
\* num_samples >= MIN_SAMPLES_FOR_PARALLEL, else the calling thread (0)
Runners ==
    IF cfg.motion_blur >= MIN_SAMPLES_FOR_PARALLEL
      THEN 1 .. Min(cfg.motion_blur, MAX_WORKERS)
      ELSE {0}

\* the sub-frames rendered: one at the base offset when num_samples <= 0
NumSamples == IF cfg.motion_blur <= 0 THEN 1 ELSE cfg.motion_blur
SampleOffset(i) ==
    IF cfg.motion_blur <= 0 THEN ValueOf(blur_args).base_offset
    ELSE render_subframe(ValueOf(blur_args).base_offset, i)

\* apply_perspective, lines 73-89: the scaled size of an image at |angle|
effective_angle(abs_angle, start) ==
    LET a == RatSub(abs_angle, Whole(start - 1))
    IN  IF a[1] < 0 THEN <<0, 1>> ELSE a
scaled_size(config, abs_angle) ==
    LET scale == IF config.side_scale[1] > 0
                   THEN apply_decay_curve(
                            config.side_scale,
                            effective_angle(abs_angle,
                                            config.side_scale_start),
                            config.side_scale_curve)
                   ELSE <<1, 1>>
    IN  int(RatMul(Whole(config.image_size), scale))

\* apply_perspective reaches the perspective matrix: the image is not
\* degenerate, not the center image (abs_angle < 0.01) and mode is not flat
NeedsMatrix(config, e) ==
    /\ scaled_size(config, e.depth) > 0
    /\ ~RatLess(e.depth, <<1, 100>>)
    /\ config.mode # "flat"

\* lines 143-145: the insets of the far edge
h_inset(config, e) ==
    int(RatMul(Whole(scaled_size(config, e.depth)),
               RatMul(e.depth, config.perspective)))
v_inset(config, e) ==
    int(RatMul(Whole(scaled_size(config, e.depth)),
               RatMul(RatMul(e.depth, config.perspective), <<1, 2>>)))
is_left(e) == e.position[1] < 0

\* fault variant: the side is not part of the key
cache_key_NoSide(config, e) ==
    <<scaled_size(config, e.depth), scaled_size(config, e.depth),
      h_inset(config, e), v_inset(config, e), FALSE>>

\* cache_key = (new_w, new_h, h_inset, v_inset, is_left)
cache_key(config, e) ==
    <<scaled_size(config, e.depth), scaled_size(config, e.depth),
      h_inset(config, e), v_inset(config, e), is_left(e)>>

\* cv2.getPerspectiveTransform(pts1, pts2): the matrix is given by the
\* corner points it maps the rectangle to
getPerspectiveTransform(config, e) ==
    LET w == scaled_size(config, e.depth)
        hi == h_inset(config, e)
        vi == v_inset(config, e)
    IN  IF is_left(e)
          THEN <<<<hi, vi>>, <<w, 0>>, <<hi, w - vi>>, <<w, w>>>>
          ELSE <<<<0, 0>>, <<w - hi, vi>>, <<0, w>>, <<w - hi, w - vi>>>>

\* the entries of one render_frame call that use a perspective matrix, in
\* the order in which they are composited
MatrixEntries(i) ==
    LET Needs(e) == NeedsMatrix(cfg, e)
    IN  SelectSeq(to_render(cfg, ValueOf(blur_args).img_idx,
                            SampleOffset(i)), Needs)

CachedKeys == {pair[1] : pair \in perspective_cache}
CachedMatrix(key) ==
    (CHOOSE pair \in perspective_cache : pair[1] = key)[2]

IdleWorker ==
    [pc |-> "idle", task |-> 0, canvas |-> NoValue, entry |-> 1,
     matrices |-> <<>>]

\* where a render goes on after its j-th matrix entry is done
AfterEntry(i, j) == IF j > Len(MatrixEntries(i)) THEN "store" ELSE "p_check"

\* a thread takes the next sample index and calls render_subframe(i)
TakeTask(r) ==
    /\ blur_pc = "rendering"
    /\ workers[r].pc = "idle"
    \* the pool's threads are interchangeable: of the idle ones, the
    \* lowest-numbered takes the task
    /\ \A q \in DOMAIN workers : q < r => workers[q].pc # "idle"
    /\ next_task < NumSamples
    /\ workers' = [workers EXCEPT ![r] =
                      [IdleWorker EXCEPT !.pc = "bg_check",
                                         !.task = next_task]]
    /\ next_task' = next_task + 1
    /\ UNCHANGED <<cfg, rendVars, pipeVars, guiVars, callVars, blur_args,
                   blur_pc, sub_frames, perspective_cache, blurred>>

\* _create_background: if self._cached_background is not None:
\* return self._cached_background.copy()
BgCheck(r) ==
    /\ workers[r].pc = "bg_check"
    /\ LET w == workers[r]
       IN  workers' = [workers EXCEPT ![r] =
              IF cached_background # NoValue
                THEN [w EXCEPT
                         !.canvas = Some(arrays[ValueOf(cached_background)]),
                         !.pc = AfterEntry(w.task, 1)]
                ELSE [w EXCEPT !.pc = "bg_build"]]
    /\ UNCHANGED <<cfg, rendVars, pipeVars, guiVars, callVars, blur_args,
                   blur_pc, next_task, sub_frames, perspective_cache,
                   blurred>>

\* _create_background: the canvas is built and a copy of it is cached
BgBuild(r) ==
    /\ workers[r].pc = "bg_build"
    /\ arrays' = Append(arrays, Background)
    /\ cached_background' = Some(Len(arrays) + 1)
    /\ LET w == workers[r]
       IN  workers' = [workers EXCEPT ![r] =
                          [w EXCEPT !.canvas = Some(Background),
                                    !.pc = AfterEntry(w.task, 1)]]
    /\ UNCHANGED <<cfg, scaled_images_cache, canvases, pipeVars, guiVars,
                   callVars, blur_args, blur_pc, next_task, sub_frames,
                   perspective_cache, blurred>>

\* apply_perspective: if cache_key in ImageTransformer._perspective_cache:
\* matrix = ImageTransformer._perspective_cache[cache_key]
PerspectiveCheck(r) ==
    /\ workers[r].pc = "p_check"
    /\ LET w == workers[r]
           e == MatrixEntries(w.task)[w.entry]
           key == cache_key(cfg, e)
       IN  workers' = [workers EXCEPT ![r] =
              IF key \in CachedKeys
                THEN [w EXCEPT !.matrices = Append(@, CachedMatrix(key)),
                               !.entry = @ + 1,
                               !.pc = AfterEntry(w.task, w.entry + 1)]
                ELSE [w EXCEPT !.pc = "p_insert"]]
    /\ UNCHANGED <<cfg, rendVars, pipeVars, guiVars, callVars, blur_args,
                   blur_pc, next_task, sub_frames, perspective_cache,
                   blurred>>

\* apply_perspective: matrix = cv2.getPerspectiveTransform(pts1, pts2);
\* ImageTransformer._perspective_cache[cache_key] = matrix
PerspectiveInsert(r) ==
    /\ workers[r].pc = "p_insert"
    /\ LET w == workers[r]
           e == MatrixEntries(w.task)[w.entry]
           key == cache_key(cfg, e)
           matrix == getPerspectiveTransform(cfg, e)
       IN  /\ perspective_cache' =
                  {pair \in perspective_cache : pair[1] # key}
                      \cup {<<key, matrix>>}
           /\ workers' = [workers EXCEPT ![r] =
                  [w EXCEPT !.matrices = Append(@, matrix),
                            !.entry = @ + 1,
                            !.pc = AfterEntry(w.task, w.entry + 1)]]
    /\ UNCHANGED <<cfg, rendVars, pipeVars, guiVars, callVars, blur_args,
                   blur_pc, next_task, sub_frames, blurred>>

\* render_frame returns the canvas: the sub-frame of sample i
StoreSubframe(r) ==
    /\ workers[r].pc = "store"
    /\ LET w == workers[r]
       IN  sub_frames' =
               [sub_frames EXCEPT ![w.task + 1] =
                   Some([off |-> SampleOffset(w.task),
                         background |-> ValueOf(w.canvas),
                         matrices |-> w.matrices])]
    /\ workers' = [workers EXCEPT ![r] = IdleWorker]
    /\ UNCHANGED <<cfg, rendVars, pipeVars, guiVars, callVars, blur_args,
                   blur_pc, next_task, perspective_cache, blurred>>

RECURSIVE SumPixels(_)
SumPixels(pixels) ==
    IF pixels = <<>> THEN 0 ELSE Head(pixels) + SumPixels(Tail(pixels))

\* (accumulated / num_samples).astype(np.uint8): the float32 sum of at
\* most a few 8-bit values is exact; the cast drops the fraction
Average(pixels) ==
    int(<<SumPixels(pixels), Len(pixels)>>) % 256

\* every sub-frame is there (the pool has shut down, or the loop has
\* ended): the frame is returned.  The observed pixel has some value in
\* each sub-frame, the same in sub-frames that were rendered the same way
BlurReturn ==
    /\ blur_pc = "rendering"
    /\ \A j \in 1 .. Len(sub_frames) : sub_frames[j] # NoValue
    /\ \A r \in DOMAIN workers : workers[r].pc = "idle"
    /\ \E pixels \in [1 .. Len(sub_frames) -> PixelValues] :
          /\ \A i \in 1 .. Len(sub_frames) : \A j \in 1 .. Len(sub_frames) :
                 sub_frames[i] = sub_frames[j] => pixels[i] = pixels[j]
          /\ blurred' = Some([samples |-> pixels,
                              pixel |-> IF cfg.motion_blur <= 0
                                          THEN pixels[1]
                                          ELSE Average(pixels)])
    /\ blur_pc' = "returned"
    /\ UNCHANGED <<cfg, rendVars, pipeVars, guiVars, callVars, blur_args,
                   next_task, workers, sub_frames, perspective_cache>>

\* _render_with_motion_blur(images, img_idx, base_offset, step_size) has
\* been called for a transition frame; the background is cached already,
\* or this is the first render_frame call of the renderer
BlurInit ==
    /\ cfg \in BlurConfigs
    /\ InitPipeline
    /\ \E first \in BOOLEAN :
          /\ arrays = [i \in 1 .. cfg.num_images |-> SourceImage(i - 1)]
                          \o (IF first THEN <<>> ELSE <<Background>>)
          /\ cached_background =
                 IF first THEN NoValue ELSE Some(cfg.num_images + 1)
    /\ scaled_images_cache = <<>>
    /\ canvases = <<>>
    /\ preview_results = <<>>
    /\ NoCalls
    /\ blur_args \in {Some([img_idx |-> 0, base_offset |-> TransOffset(k)]) :
                         k \in 0 .. transition_frames - 1}
    /\ blur_pc = "rendering"
    /\ next_task = 0
    /\ workers = [r \in Runners |-> IdleWorker]
    /\ sub_frames = [j \in 1 .. NumSamples |-> NoValue]
    /\ perspective_cache = {}
    /\ blurred = NoValue

BlurNext ==
    \/ \E r \in DOMAIN workers :
          \/ TakeTask(r) \/ BgCheck(r) \/ BgBuild(r)
          \/ PerspectiveCheck(r) \/ PerspectiveInsert(r) \/ StoreSubframe(r)
    \/ BlurReturn

BlurSpec == BlurInit /\ [][BlurNext]_vars

(***************************************************************************)
(* ImageTransformer.blend_onto_canvas: a canvas of CanvasCols x CanvasRows *)
(* one-channel pixels, images of one to four pixels with three channels    *)
(* (copied) or four (alpha 255 or 0, where the float blend is exact).      *)
(***************************************************************************)
CanvasCols == 0 .. 1
CanvasRows == 0 .. 1
ImageShapes == {<<1, 1>>, <<2, 2>>}
BlendPositions == -2 .. 2

\* the pixel of an image at column ix, row iy: the colour names the
\* place, the alpha channel alternates between opaque and transparent
ImagePixel(channels, ix, iy) ==
    [v |-> 1 + ix + 2 * iy,
     a |-> IF channels = 3 \/ (ix + iy) % 2 = 0 THEN 255 ELSE 0]

\* the images handed to blend_onto_canvas: None, BGR and BGRA arrays
BlendImages ==
    {NoValue} \cup
    {Some([w |-> sh[1], h |-> sh[2], channels |-> ch,
           px |-> [q \in (0 .. sh[1] - 1) \X (0 .. sh[2] - 1) |->
                      ImagePixel(ch, q[1], q[2])]]) :
        sh \in ImageShapes, ch \in {3, 4}}

\* np.zeros((height, width, 3)): a new canvas
BlankCanvas == [p \in CanvasCols \X CanvasRows |-> 0]

\* (rgb * alpha + canvas_region * (1 - alpha)).astype(np.uint8), with
\* alpha = a / 255.0
AlphaBlend(pixel, below) ==
    int(<<pixel.v * pixel.a + below * (255 - pixel.a), 255>>) % 256

\* fault variant: the source region starts at the image's corner
blend_onto_canvas_NoSourceOffset(canvas, img, x, y) ==
    IF img = NoValue THEN canvas
    ELSE
      LET image == ValueOf(img)
          canvas_w == Cardinality(CanvasCols)
          canvas_h == Cardinality(CanvasRows)
          x1 == Max(0, x)
          y1 == Max(0, y)
          x2 == Min(canvas_w, x + image.w)
          y2 == Min(canvas_h, y + image.h)
          src_x1 == 0
          src_y1 == 0
      IN  IF x1 >= x2 \/ y1 >= y2 THEN canvas
          ELSE [p \in DOMAIN canvas |->
                   IF x1 <= p[1] /\ p[1] < x2 /\ y1 <= p[2] /\ p[2] < y2
                     THEN LET pixel == image.px[<<src_x1 + (p[1] - x1),
                                                  src_y1 + (p[2] - y1)>>]
                          IN  IF image.channels = 4
                                THEN AlphaBlend(pixel, canvas[p])
                                ELSE pixel.v
                     ELSE canvas[p]]

\* blend_onto_canvas(canvas, img, x, y): the pixels of the canvas after
\* the call; canvas[y1:y2, x1:x2] is assigned from
\* img[src_y1:src_y2, src_x1:src_x2]
blend_onto_canvas(canvas, img, x, y) ==
    IF img = NoValue THEN canvas
    ELSE
      LET image == ValueOf(img)
          canvas_w == Cardinality(CanvasCols)
          canvas_h == Cardinality(CanvasRows)
          x1 == Max(0, x)
          y1 == Max(0, y)
          x2 == Min(canvas_w, x + image.w)
          y2 == Min(canvas_h, y + image.h)
          src_x1 == x1 - x
          src_y1 == y1 - y
      IN  IF x1 >= x2 \/ y1 >= y2 THEN canvas
          ELSE [p \in DOMAIN canvas |->
                   IF x1 <= p[1] /\ p[1] < x2 /\ y1 <= p[2] /\ p[2] < y2
                     THEN LET pixel == image.px[<<src_x1 + (p[1] - x1),
                                                  src_y1 + (p[2] - y1)>>]
                          IN  IF image.channels = 4
                                THEN AlphaBlend(pixel, canvas[p])
                                ELSE pixel.v
                     ELSE canvas[p]]

\* canvas = self.transformer.blend_onto_canvas(canvas, img, x, y): the
\* canvas array is written in place and returned; the call is recorded
BlendOntoCanvas ==
    \E img \in BlendImages, x \in BlendPositions, y \in BlendPositions :
        LET after == blend_onto_canvas(arrays[1], img, x, y)
        IN  /\ arrays' = [arrays EXCEPT ![1] = after]
            /\ helper_calls' = <<[fn |-> "blend_onto_canvas",
                                  canvas |-> arrays[1], img |-> img,
                                  x |-> x, y |-> y, returned |-> after]>>
            /\ UNCHANGED <<cfg, cached_background, scaled_images_cache,
                           canvases, pipeVars, guiVars, blurVars>>

\* a new canvas, nothing blended yet
BlendInit ==
    /\ cfg = BaseConfig
    /\ InitPipeline
    /\ arrays = <<BlankCanvas>>
    /\ cached_background = NoValue
    /\ scaled_images_cache = <<>>
    /\ canvases = <<>>
    /\ preview_results = <<>>
    /\ NoBlur
    /\ NoCalls

BlendNext == BlendOntoCanvas

BlendSpec == BlendInit /\ [][BlendNext]_vars

(***************************************************************************)
(* Properties.                                                             *)
(***************************************************************************)
IsPrefix(a, b) ==
    /\ Len(a) <= Len(b)
    /\ \A i \in 1 .. Len(a) : a[i] = b[i]

\* the frames given to writer.append_data so far: those the sink accepted
\* and the one on which it raised
Handed ==
    IF error = "EncoderError" THEN written \o cframe ELSE written

\* the frames the consumer has taken from the queue
Taken ==
    IF cpc = "write" \/ error = "EncoderError" THEN written \o cframe
                                               ELSE written

\* generate() has seen the cancellation flag set at one of its check points
ObservedCancel ==
    pc \in {"cancel_done", "cancel_join", "cancel_close"}
        \/ printed = "cancelled"

\* C1: in every interleaving the frames handed to the encoder sink are a
\* prefix of the frames put on the queue, in the same order: nothing is
\* reordered, duplicated or skipped.
C1_OrderPreserved == IsPrefix(Handed, enqueued)

C1_Witness ==
    /\ Len(written) >= 2
    /\ Len(queue) >= 2
    /\ cpc = "write"

\* C2: the consumer leaves its loop without error only when "done" is set
\* and the queue is empty, and the producer never enqueues after setting
\* "done"; so whenever the consumer has exited without error the queue is
\* drained and every enqueued frame has been written to the sink.
C2_DrainedOnExit ==
    /\ [](cpc = "exited" /\ error = None
            => done /\ queue = <<>> /\ written = enqueued)
    /\ [][done => enqueued' = enqueued]_vars

C2_Witness ==
    /\ cpc = "exited"
    /\ error = None
    /\ ObservedCancel
    /\ Len(written) >= 2

\* C3, as stated: once the cancellation flag has been set no further frame
\* is put on the hand-off queue, wherever in the run and in whichever
\* interleaving the flag is set.
C3_NoPutAfterCancel == [][cancel_flag => enqueued' = enqueued]_vars

\* C3, amended: once generate() has observed the flag at one of its check
\* points no further frame is put on the queue; a flag set after the check
\* of the current frame lets that one frame, and no other, be put.
C3_NoPutAfterObserved ==
    /\ [](puts_after_cancel <= 1)
    /\ [][ObservedCancel => enqueued' = enqueued]_vars

C3_Witness ==
    /\ puts_after_cancel = 1
    /\ printed = "cancelled"
    /\ Len(enqueued) >= 2

\* generate() has been left after the encoder sink was opened
LeftAfterOpen ==
    pc \in {"returned", "raised", "finished"} /\ out # "unopened"

\* C4: once the encoder sink has been opened, every way generate() is left
\* (completion, cancellation at any check point, encoder error, a failure
\* while rendering a frame) leaves the sink closed.
C4_SinkClosedOnExit == LeftAfterOpen => out = "closed"

\* generate() is in its generation loops and at least one more frame of
\* the timeline, inside the requested range, is still to be started
FramesRemain ==
    LET next == IF pc \in {"hold_body", "trans_body", "loop_body"}
                  THEN absolute_frame + 1 ELSE absolute_frame
    IN  /\ pc \in {"img_loop", "hold_loop", "hold_body", "trans_loop",
                   "trans_body", "loop_loop", "loop_body"}
        /\ next <= end_frame
        /\ next < total_frames

CancelledReturn ==
    /\ pc = "finished"
    /\ printed = "cancelled"
    /\ done
    /\ out = "closed"
    /\ completions = << <<FALSE, "Cancelled by user">> >>

\* C5: when cancellation is requested while frames remain to be produced
\* and the consumer keeps running, the producer eventually observes the
\* flag, sets "done", joins the consumer, closes the sink and returns; a
\* run in which the producer observed cancellation reports cancellation
\* and never completion.
C5_CancelReported ==
    /\ (cancel_flag /\ FramesRemain) ~> CancelledReturn
    /\ [](ObservedCancel =>
            \A i \in 1 .. Len(completions) :
                completions[i] = <<FALSE, "Cancelled by user">>)
    /\ [](printed = "saved" => ~ObservedCancel)

C5_Witness ==
    /\ CancelledReturn
    /\ Len(written) >= 2
    /\ cpc = "exited"

C7_BoundedQueue ==
    /\ Len(queue) <= 30
    /\ enqueued = Taken \o queue
    /\ Len(queue) = 30 /\ InRange(absolute_frame)
         => /\ ~ENABLED HoldBody
            /\ ~ENABLED TransBody
            /\ ~ENABLED LoopBody
    /\ cpc = "get" /\ queue = <<>> => ENABLED GetTimeout

C7_Witness ==
    /\ Len(queue) = 30
    /\ pc = "hold_body"
    /\ InRange(absolute_frame)
    /\ cpc = "get"

\* C8: the progress callback is invoked exactly once after each in-range
\* frame is written, with framesDone = 1, 2, 3, ... and framesTotal =
\* end_frame - start_frame + 1; framesDone never exceeds framesTotal and
\* no callback is made for a frame outside the requested range.
C8_ProgressCallbacks ==
    /\ \A i \in 1 .. Len(callbacks) :
           callbacks[i] = <<i, end_frame - start_frame + 1>>
    /\ Len(callbacks) <= end_frame - start_frame + 1
    /\ Len(callbacks) =
           IF cpc = "callback" THEN Len(written) - 1 ELSE Len(written)
    /\ \A i \in 1 .. Len(written) :
           start_frame <= written[i].abs /\ written[i].abs <= end_frame

C8_Witness ==
    /\ Len(callbacks) = frames_to_render
    /\ frames_to_render >= 2
    /\ frames_to_render < total_frames
    /\ start_frame > 0

\* the absolute frame numbers of a sequence of frames
AbsOf(frames) == [i \in 1 .. Len(frames) |-> frames[i].abs]

\* the frames put so far are start, start + 1, ... and none lies past end
EnqueuedInOrder ==
    /\ \A i \in 1 .. Len(enqueued) : enqueued[i].abs = start_frame + i - 1
    /\ Len(enqueued) <= end_frame - start_frame + 1

\* a run that was neither cancelled nor failed has put exactly the frames
\* start .. end, and the producer never steps past end + 1
ExactRange ==
    /\ EnqueuedInOrder
    /\ absolute_frame <= end_frame + 1
    /\ printed = "saved"
         => /\ AbsOf(enqueued) = [i \in 1 .. frames_to_render
                                    |-> start_frame + i - 1]
            /\ Len(enqueued) = end_frame - start_frame + 1

\* C9, as stated: for every N >= 1, every combination of frame counts and
\* every requested start_frame / end_frame the range is clamped so that
\* 0 <= start <= end <= total_frames - 1, and an uncancelled, error-free
\* run enqueues exactly the frames with index in [start, end], in
\* increasing order, stops as soon as the index passes end, and enqueues
\* end - start + 1 frames.
C9_RangeClamped ==
    /\ 0 <= start_frame
    /\ start_frame <= end_frame
    /\ end_frame <= total_frames - 1
    /\ ExactRange

\* C9, amended: the same for every combination of frame counts that gives
\* a timeline of at least one frame (total_frames >= 1).  For an empty
\* timeline the range is clamped to start = end = 0 and no frame is put.
C9_RangeClampedNonEmpty ==
    /\ total_frames >= 1 =>
          /\ 0 <= start_frame
          /\ start_frame <= end_frame
          /\ end_frame <= total_frames - 1
          /\ ExactRange
    /\ total_frames = 0 =>
          /\ start_frame = 0 /\ end_frame = 0
          /\ enqueued = <<>>

C9_Witness ==
    /\ printed = "saved"
    /\ start_frame > 0
    /\ end_frame < total_frames - 1
    /\ Len(enqueued) = frames_to_render
    /\ frames_to_render >= 3
    /\ cfg.start_frame # NoValue /\ ValueOf(cfg.start_frame) = start_frame

\* the (image, offset) the timeline assigns to absolute frame f: image 0 is
\* held for first_hold_frames frames, every later image for hold_frames
\* frames, and each hold is followed by transition_frames transition frames
\* of the same image, the k-th of them at offset easing(k / T)
ExpectedRaster(f) ==
    LET fh == first_hold_frames
        h == hold_frames
        T == transition_frames
        r == f - (fh + T)
        seg == h + T
    IN  IF f < fh THEN [img |-> 0, hold |-> TRUE, k |-> 0]
        ELSE IF f < fh + T THEN [img |-> 0, hold |-> FALSE, k |-> f - fh]
        ELSE IF (r % seg) < h
               THEN [img |-> 1 + (r \div seg), hold |-> TRUE, k |-> 0]
               ELSE [img |-> 1 + (r \div seg), hold |-> FALSE,
                     k |-> (r % seg) - h]

MatchesTimeline(fr) ==
    LET e == ExpectedRaster(fr.abs)
    IN  /\ fr.abs < total_frames
        /\ fr.img = e.img
        /\ fr.img < num_images
        /\ IF e.hold THEN fr.off = <<0, 1>>
           ELSE RatEq(fr.off, easing_func(cfg.easing, e.k, transition_frames))

\* C10: absolute frame f is rendered for the (imageIndex, offset) of the
\* timeline: offset 0 on hold frames, easing(trans_frame / T) on transition
\* frames.  For N=5, hold_frames=20, transition_frames=10: frame 19 is
\* (0, 0), frame 20 is (0, easing(0)), frame 29 is (0, easing(9/10)).
C10_FrameMapping ==
    /\ \A i \in 1 .. Len(enqueued) : MatchesTimeline(enqueued[i])
    /\ cfg = ExampleConfig =>
          \A i \in 1 .. Len(enqueued) :
              LET fr == enqueued[i]
              IN  /\ fr.abs = 19 => fr.img = 0 /\ fr.off = <<0, 1>>
                  /\ fr.abs = 20 => fr.img = 0 /\ RatEq(fr.off, <<0, 1>>)
                  /\ fr.abs = 29 => fr.img = 0 /\ RatEq(fr.off, <<249, 250>>)

C10_Witness ==
    /\ cfg = ExampleConfig
    /\ Len(enqueued) >= 30
    /\ enqueued[30].abs = 29
    /\ enqueued[30].off = <<1992, 2000>>

\* the whole timeline is requested
FullRange == start_frame = 0 /\ end_frame >= total_frames - 1

\* C11: for every N >= 1, total_frames = first_hold_frames +
\* (N-1)*hold_frames + (N-1)*transition_frames, plus transition_frames when
\* loop is enabled (N=5, hold 20, transition 10, no loop gives 140);
\* generate() and calculate_total_frames() compute this same value, and a
\* full uncancelled run of the generation loops steps through exactly
\* total_frames absolute frames.
C11_TotalFrames ==
    /\ total_frames =
           first_hold_frames + (num_images - 1) * hold_frames
               + (num_images - 1) * transition_frames
               + (IF cfg.loop THEN transition_frames ELSE 0)
    /\ calculate_total_frames(cfg, num_images) = total_frames
    /\ cfg = ExampleConfig =>
           hold_frames = 20 /\ transition_frames = 10 /\ total_frames = 140
    /\ absolute_frame <= total_frames
    /\ printed = "saved" /\ FullRange =>
           /\ absolute_frame = total_frames
           /\ Len(enqueued) = total_frames

C11_Witness ==
    /\ printed = "saved"
    /\ FullRange
    /\ cfg.loop
    /\ num_images >= 2
    /\ transition_frames >= 1
    /\ absolute_frame = total_frames
    /\ Len(enqueued) >= 4

\* n is a nearest integer to the fraction x
Nearest(n, x) ==
    LET diff == n * x[2] - x[1]
    IN  2 * (IF diff >= 0 THEN diff ELSE -diff) <= x[2]

\* C12: hold_frames, transition_frames and first_hold_frames are each
\* round(seconds * fps), the nearest integer to the product, for every
\* non-negative duration and positive fps (first_hold falling back to hold
\* when it is not set).
C12_RoundedCounts ==
    pc # "start" =>
    /\ Nearest(hold_frames, Times(cfg.hold, cfg.fps))
    /\ Nearest(transition_frames, Times(cfg.transition, cfg.fps))
    /\ Nearest(first_hold_frames, Times(first_hold_seconds(cfg), cfg.fps))

\* the fraction x lies in [0, 1]
InUnit(x) == x[2] > 0 /\ 0 <= x[1] /\ x[1] <= x[2]

\* the fraction x is at most the fraction y (positive denominators)
RatLeq(x, y) == x[1] * y[2] <= y[1] * x[2]

\* C13: every offset passed to render_frame during a run lies in [0, 1]:
\* it is exactly 0 on every hold frame, it is easing(k / transition_frames)
\* with 0 <= k < transition_frames on every transition and loop frame, and
\* every motion-blur sub-sample offset is capped at 1.0.
C13_OffsetsInUnitInterval ==
    \A j \in 1 .. Len(render_calls) :
        LET c == render_calls[j]
        IN  /\ InUnit(c.off)
            /\ c.hold => c.off = <<0, 1>>
            /\ ~c.hold =>
                  /\ \E k \in 0 .. transition_frames - 1 :
                         c.base = easing_func(cfg.easing, k, transition_frames)
                  /\ InUnit(c.base)
                  /\ RatLeq(c.base, c.off)
                  /\ cfg.motion_blur <= 0 => c.off = c.base

C13_Witness ==
    \E j \in 1 .. Len(render_calls) :
        /\ ~render_calls[j].hold
        /\ render_calls[j].off = <<1, 1>>
        /\ render_calls[j].base[1] < render_calls[j].base[2]
        /\ render_calls[j].img = 1

\* the frames of the timeline before the loop transition
RegularFrames ==
    total_frames - (IF cfg.loop THEN transition_frames ELSE 0)

\* image 0 is in the visible set of the call, one slot right of the
\* center image: at position 1 - offset
FirstImageEnters(c) ==
    \E j \in 1 .. Len(to_render(cfg, c.img, c.off)) :
        LET e == to_render(cfg, c.img, c.off)[j]
        IN  /\ e.img_idx = 0
            /\ RatEq(e.position, Position(1, c.off))

\* C14: when loop is enabled, exactly transition_frames further frames
\* follow the last regular segment, each rendered with imageIndex = N-1 and
\* offset = easing(k / transition_frames), and in every one of them the
\* first image (index 0) is in the visible set at position 1 - offset,
\* reached through the renderer's modulo index wraparound.
C14_LoopSweep ==
    /\ \A j \in 1 .. Len(enqueued) :
           LET fr == enqueued[j]
           IN  fr.abs >= RegularFrames =>
                 /\ cfg.loop
                 /\ fr.img = num_images - 1
                 /\ RatEq(fr.off, easing_func(cfg.easing,
                                              fr.abs - RegularFrames,
                                              transition_frames))
    /\ printed = "saved" /\ FullRange /\ cfg.loop =>
           Cardinality({j \in 1 .. Len(enqueued) :
                           enqueued[j].abs >= RegularFrames})
               = transition_frames
    /\ \A j \in 1 .. Len(render_calls) :
           render_calls[j].abs >= RegularFrames =>
               FirstImageEnters(render_calls[j])

\* the depth |position| of a layer drawn on a canvas
LayerDepth(l) == <<Abs(l.position[1]), l.position[2]>>

\* the layers drawn over the background of a canvas
Drawn(canvas) == Tail(canvas.pixels)

\* the visible images of a call whose transform is not degenerate
Composited(canvas) ==
    LET found == Collected(cfg, canvas.center_idx, canvas.offset)
    IN  {<<found[j].img_idx, found[j].position>> :
            j \in {k \in 1 .. Len(found) : ~TransformedIsNone(cfg, found[k])}}

\* C15: within one render_frame call the visible images are composited in
\* non-increasing order of depth = |i - offset|: an image is never painted
\* before an image of strictly larger depth and the image of smallest depth
\* is composited last, so where two opaque images overlap the one with the
\* smaller |position|, drawn later, is the one visible.
C15_PaintOrder ==
    \A c \in 1 .. Len(canvases) :
        LET layers == Drawn(canvases[c])
        IN  /\ \A a \in 1 .. Len(layers) : \A b \in 1 .. Len(layers) :
                   a < b => RatLeq(LayerDepth(layers[b]),
                                   LayerDepth(layers[a]))
            /\ \A a \in 1 .. Len(layers) :
                   RatLeq(LayerDepth(layers[Len(layers)]),
                          LayerDepth(layers[a]))
            /\ {<<layers[a].img_idx, layers[a].position>> :
                    a \in 1 .. Len(layers)} = Composited(canvases[c])

C15_Witness ==
    \E c \in 1 .. Len(canvases) :
        LET layers == Drawn(canvases[c])
        IN  /\ Len(layers) = 10
            /\ canvases[c].offset = <<1, 2>>
            /\ layers[10].kind = "reflection"
            /\ layers[9].img_idx # layers[7].img_idx
            /\ LayerDepth(layers[9]) = LayerDepth(layers[7])
            /\ LayerDepth(layers[1]) # LayerDepth(layers[3])

\* C18: two render_frame calls with identical (images, centerIndex,
\* offset, config) return identical canvases, whatever other render_frame
\* calls happened in between: render_frame composites onto a copy of the
\* cached background and never mutates the cached background, the
\* prescaled-image cache or the source images, and a canvas returned
\* earlier is not changed by later calls.
C18_RenderIdempotent ==
    /\ \A i \in 1 .. Len(canvases) : \A j \in 1 .. Len(canvases) :
           /\ canvases[i].center_idx = canvases[j].center_idx
           /\ canvases[i].offset = canvases[j].offset
           => arrays[canvases[i].array] = arrays[canvases[j].array]
    /\ \A i \in 1 .. Len(canvases) :
           arrays[canvases[i].array] = canvases[i].pixels
    /\ cached_background # NoValue =>
           arrays[ValueOf(cached_background)] = Background
    /\ \A i \in 1 .. num_images : arrays[i] = SourceImage(i - 1)
    /\ \A i \in DOMAIN scaled_images_cache :
           arrays[scaled_images_cache[i]] = resize_to_fit(SourceImage(i - 1))

C18_Witness ==
    /\ Len(canvases) = 3
    /\ canvases[1].center_idx = canvases[3].center_idx
    /\ canvases[1].offset = canvases[3].offset
    /\ canvases[2].center_idx # canvases[1].center_idx
    /\ canvases[1].array # canvases[3].array
    /\ Len(canvases[3].pixels) >= 4
    /\ scaled_images_cache # <<>>

\* C16: if opening the encoder sink fails, generation aborts immediately
\* with a failure outcome: the encoder thread is never started, no frame is
\* rendered or enqueued, and no cancellation or completion outcome is
\* reported.
C16_SinkFailureAborts ==
    /\ [](printed = "error" =>
            /\ pc = "sysexit"
            /\ out = "unopened"
            /\ cpc = "idle"
            /\ render_calls = <<>>
            /\ enqueued = <<>>
            /\ written = <<>>
            /\ callbacks = <<>>
            /\ completions = <<>>)
    /\ [][pc = "sysexit" => pc' = "sysexit" /\ printed' = "error"]_vars
    /\ [][printed' = "error" /\ printed # "error" => pc = "start"]_vars

C16_Witness ==
    /\ pc = "sysexit"
    /\ printed = "error"
    /\ cancel_flag
    /\ total_frames >= 2

\* generate() has been left: it returned, or an exception left it
Left == pc \in {"returned", "raised", "finished"}

\* neither the encoder sink nor the encoder thread has been touched
NoEncoder ==
    /\ out = "unopened"
    /\ cpc = "idle"
    /\ enqueued = <<>>
    /\ written = <<>>

StatisticsOnly ==
    cfg.statistics =>
        /\ NoEncoder
        /\ render_calls = <<>>
        /\ Left =>
              /\ printed = "statistics"
              /\ reported = Some([images |-> num_images,
                                  total_frames |-> total_frames,
                                  duration |-> <<total_frames, cfg.fps>>])

\* C17, as stated: statistics mode returns after reporting image count,
\* total frame count and duration without rendering any frame, opening the
\* encoder sink or starting the encoder thread; preview mode renders
\* exactly one frame, for a target frame clamped into
\* [0, total_frames - 1], and likewise never opens the sink or starts the
\* encoder thread; when both are set, statistics takes precedence.
C17_Modes ==
    /\ StatisticsOnly
    /\ ~cfg.statistics /\ cfg.preview # NoValue =>
          /\ NoEncoder
          /\ Left =>
                /\ Len(render_calls) = 1
                /\ 0 <= render_calls[1].abs
                /\ render_calls[1].abs <= total_frames - 1

\* C17, amended: the same, except that the target frame is
\* max(0, min(target, total_frames - 1)), which lies in
\* [0, total_frames - 1] when the timeline has at least one frame and is 0
\* when it is empty; on an empty timeline with hold_frames +
\* transition_frames = 0 the lookup divides by zero and no frame is
\* rendered, otherwise exactly one frame is rendered.
C17_ModesNonEmpty ==
    /\ StatisticsOnly
    /\ ~cfg.statistics /\ cfg.preview # NoValue =>
          /\ NoEncoder
          /\ Len(render_calls) <= 1
          /\ Left /\ ~(total_frames = 0
                          /\ hold_frames + transition_frames = 0) =>
                /\ printed = "preview"
                /\ Len(render_calls) = 1
                /\ render_calls[1].abs = target_frame
                /\ total_frames >= 1 =>
                      /\ 0 <= render_calls[1].abs
                      /\ render_calls[1].abs <= total_frames - 1
                /\ total_frames = 0 => render_calls[1].abs = 0
          /\ Left /\ total_frames = 0
                  /\ hold_frames + transition_frames = 0 =>
                /\ render_calls = <<>>
                /\ printed = None

C17_Witness ==
    /\ ~cfg.statistics
    /\ cfg.preview = Some(Whole(100))
    /\ pc = "finished"
    /\ printed = "preview"
    /\ total_frames >= 3
    /\ Len(render_calls) = 1
    /\ render_calls[1].abs = total_frames - 1
    /\ render_calls[1].img = num_images - 1

\* the producer is inside queue.put on a full queue and the consumer, the
\* only thread that takes frames out, has ended: the put never returns
ProducerStuck ==
    /\ pc \in {"hold_body", "trans_body", "loop_body"}
    /\ InRange(absolute_frame)
    /\ QueueFull(queue)
    /\ cpc = "exited"

\* C19: whenever the consumer thread has stopped because of an encoder
\* error, generate() still terminates: the producer is never blocked
\* forever putting a frame on a full queue, whatever number of frames
\* remained to be produced, and the run reaches the point where the sink
\* is closed and the call returns.
C19_TerminatesAfterEncoderError ==
    error = "EncoderError" => ~ProducerStuck

\* C20: no frame is written to the encoder sink after the sink has been
\* closed, in every interleaving, including the one where the join on the
\* consumer gives up at its timeout (5 s after cancellation, 30 s after
\* completion) while the consumer is still draining the queue: once the
\* sink is closed no further frame is given to writer.append_data.
C20_NoWriteAfterClose == [][out = "closed" => Handed' = Handed]_vars

\* on_complete(True, None) has been called
ReportedSuccess ==
    \E i \in 1 .. Len(completions) : completions[i] = <<TRUE, None>>

\* C21: a run is reported as successful (generate() announces the video as
\* saved and VideoWorker calls on_complete(True, None)) only if every frame
\* of the requested range was written to the sink: a run whose consumer
\* recorded an encoder error is never reported as successful.
C21_SuccessMeansAllWritten ==
    Mode = "video" /\ printed = "saved" /\ ReportedSuccess =>
        /\ error = None
        /\ AbsOf(written) = [i \in 1 .. frames_to_render |->
                                start_frame + i - 1]

\* the lookup result r names the image and the offset of the frame fr
SameFrame(r, fr) ==
    /\ r.abs = fr.abs
    /\ r.img = fr.img
    /\ RatEq(r.off, fr.off)

\* C22: for every N >= 1, every loop setting, every combination of
\* first_hold_frames, hold_frames and transition_frames (zero included) and
\* every frame number f in [0, total_frames - 1], the single-frame lookups
\* (the preview mode of generate() and PreviewWorker) compute without
\* error the same (imageIndex, offset) that the sequential generation loop
\* uses for absolute frame f, the frames of the loop segment included.
C22_LookupsAgree ==
    /\ \A i \in 1 .. Len(enqueued) :
          LET e == enqueued[i]
          IN  /\ e.abs = i - 1
              /\ ~LookupDividesByZero(e.abs)
              /\ SameFrame(PreviewLookup(e.abs), e)
              /\ ~PreviewWorkerDividesByZero(e.abs)
              /\ SameFrame(PreviewWorkerLookup(e.abs), e)
              /\ \A j \in 1 .. Len(preview_results) :
                    LET r == preview_results[j]
                    IN  PreviewWorkerFrame(r.frame_number) = e.abs =>
                            /\ r.canvas # NoValue
                            /\ SameFrame(ValueOf(r.canvas), e)
    /\ pc = "img_loop" /\ img_idx >= num_images
          /\ ~(cfg.loop /\ ~generation_complete) =>
          Len(enqueued) = Max(total_frames, 0)
    /\ total_frames >= 1 =>
          /\ pc # "raised"
          /\ \A j \in 1 .. Len(preview_results) :
                preview_results[j].canvas # NoValue
          /\ printed = "preview" =>
                render_calls = <<PreviewLookup(target_frame)>>

C22_Witness ==
    /\ cfg.loop
    /\ num_images = 3
    /\ Len(enqueued) = total_frames
    /\ Len(preview_results) = 1
    /\ preview_results[1].frame_number = total_frames - 1
    /\ total_frames - 1 > regular_frames
    /\ ValueOf(preview_results[1].canvas).img = 2
    /\ ValueOf(preview_results[1].canvas).off[1] > 0
    /\ SameFrame(ValueOf(preview_results[1].canvas), enqueued[total_frames])

\* the worker thread started by start() has ended
ThreadEnded == pc \in {"finished", "sysexit", "load_exit"}

\* C23: every VideoWorker run started with start() invokes on_complete
\* exactly once, whatever the outcome: success, cancellation, a source
\* folder that is missing or holds no loadable image, an encoder sink that
\* cannot be opened, or an exception during generation.
C23_CompletesExactlyOnce ==
    /\ Len(completions) <= 1
    /\ ThreadEnded => Len(completions) = 1

\* the image layers of a canvas, and the slot i each was drawn for
\* (position = i - offset)
ImageLayers(canvas) ==
    LET IsImage(l) == l.kind = "image"
    IN  SelectSeq(Drawn(canvas), IsImage)
SlotOf(canvas, l) == (l.position[1] + canvas.offset[1]) \div canvas.offset[2]

\* the image slot i shows, and whether the slot is in the image list
SlotIndex(canvas, i) ==
    IF cfg.repeat THEN (canvas.center_idx + i) % num_images
                  ELSE canvas.center_idx + i
SlotInList(canvas, i) ==
    cfg.repeat \/ (0 <= canvas.center_idx + i
                      /\ canvas.center_idx + i < num_images)
\* the slot's image is one pixel wide and away from the center
SlotDegenerate(canvas, i) ==
    /\ SlotIndex(canvas, i) \in cfg.narrow
    /\ i * canvas.offset[2] # canvas.offset[1]

\* C24: render_frame considers exactly the slots i in
\* [-visible_range, +visible_range]: with repeat enabled every slot is
\* rendered with image index (centerIndex + i) mod N, giving
\* 2 * visible_range + 1 entries for every N >= 1; with repeat disabled a
\* slot is rendered if and only if 0 <= centerIndex + i < N; in both cases
\* every index used to fetch an image lies in [0, N - 1].  (A slot whose
\* transform is degenerate is fetched but not drawn.)
C24_VisibleSlots ==
    \A c \in 1 .. Len(canvases) :
        LET canvas == canvases[c]
            layers == ImageLayers(canvas)
            vr == cfg.visible_range
            slots == {i \in -vr .. vr : SlotInList(canvas, i)}
            drawn == {i \in slots : ~SlotDegenerate(canvas, i)}
        IN  /\ {SlotOf(canvas, layers[k]) : k \in 1 .. Len(layers)} = drawn
            /\ Len(layers) = Cardinality(drawn)
            /\ \A k \in 1 .. Len(layers) :
                  /\ layers[k].img_idx =
                         SlotIndex(canvas, SlotOf(canvas, layers[k]))
                  /\ 0 <= layers[k].img_idx
                  /\ layers[k].img_idx <= num_images - 1
            /\ cfg.repeat => Cardinality(slots) = 2 * vr + 1
            /\ cfg.repeat /\ cfg.narrow = {} => Len(layers) = 2 * vr + 1
            /\ ~cfg.repeat =>
                  \A i \in -vr .. vr :
                      (i \in slots) <=> (0 <= canvas.center_idx + i
                                            /\ canvas.center_idx + i < num_images)

C24_Witness ==
    /\ cfg.repeat
    /\ num_images = 3
    /\ cfg.visible_range = 2
    /\ cfg.narrow = {}
    /\ Len(canvases) >= 1
    /\ canvases[1].center_idx = 0
    /\ canvases[1].offset = <<1, 4>>
    /\ Len(ImageLayers(canvases[1])) = 5
    /\ \E k \in 1 .. 5 :
          /\ SlotOf(canvases[1], ImageLayers(canvases[1])[k]) = -2
          /\ ImageLayers(canvases[1])[k].img_idx = 1

\* base + (i / S) * step with step = 1 / transition_frames, capped at 1
CappedSample(base, i) ==
    LET S == cfg.motion_blur
        sum == <<base[1] * S * transition_frames + i * base[2],
                 base[2] * S * transition_frames>>
    IN  IF RatLess(<<1, 1>>, sum) THEN <<1, 1>> ELSE sum

\* C25: with S > 0 motion-blur sub-samples, an output transition frame is
\* the per-pixel mean of the S renders taken at offsets
\* base + (i / S) * step for i = 0..S-1 (each capped at 1.0, the first at
\* the frame's own offset), accumulated without overflow and then rounded
\* to the nearest integer pixel value; with S <= 0 it is the single render
\* at the base offset.
C25_BlurIsRoundedMean ==
    blur_pc = "returned" =>
        LET base == ValueOf(blur_args).base_offset
            S == cfg.motion_blur
        IN  IF S > 0
              THEN /\ Len(sub_frames) = S
                   /\ \A i \in 0 .. S - 1 :
                         RatEq(ValueOf(sub_frames[i + 1]).off,
                               CappedSample(base, i))
                   /\ RatEq(ValueOf(sub_frames[1]).off, base)
                   /\ Len(ValueOf(blurred).samples) = S
                   /\ ValueOf(blurred).pixel \in 0 .. 255
                   /\ Nearest(ValueOf(blurred).pixel,
                              <<SumPixels(ValueOf(blurred).samples), S>>)
              ELSE /\ Len(sub_frames) = 1
                   /\ RatEq(ValueOf(sub_frames[1]).off, base)
                   /\ ValueOf(blurred).pixel = ValueOf(blurred).samples[1]

\* the matrix a perspective-cache key stands for: the corner points given
\* by (new_w, new_h, h_inset, v_inset, is_left)
MatrixOfKey(key) ==
    IF key[5]
      THEN <<<<key[3], key[4]>>, <<key[1], 0>>,
             <<key[3], key[2] - key[4]>>, <<key[1], key[2]>>>>
      ELSE <<<<0, 0>>, <<key[1] - key[3], key[4]>>,
             <<0, key[2]>>, <<key[1] - key[3], key[2] - key[4]>>>>

\* the sub-frame of sample i as a render with nothing else running gives it
SequentialSubframe(i, sub) ==
    /\ sub.off = SampleOffset(i)
    /\ sub.background = Background
    /\ sub.matrices = [j \in 1 .. Len(MatrixEntries(i)) |->
                          getPerspectiveTransform(cfg, MatrixEntries(i)[j])]

CachesSound ==
    /\ DOMAIN workers = IF cfg.motion_blur >= 3
                          THEN 1 .. Min(cfg.motion_blur, 4)
                          ELSE {0}
    /\ \A pair \in perspective_cache : pair[2] = MatrixOfKey(pair[1])
    /\ \A p \in perspective_cache : \A q \in perspective_cache :
           p[1] = q[1] => p = q
    /\ cached_background # NoValue =>
           arrays[ValueOf(cached_background)] = Background
    /\ \A i \in 1 .. Len(sub_frames) :
           sub_frames[i] # NoValue =>
               /\ SequentialSubframe(i - 1, ValueOf(sub_frames[i]))
               /\ \A j \in 1 .. Len(sub_frames) :
                      /\ sub_frames[j] # NoValue
                      /\ ValueOf(sub_frames[j]).off = ValueOf(sub_frames[i]).off
                      => sub_frames[j] = sub_frames[i]
    /\ blur_pc = "returned" /\ cfg.motion_blur > 0 =>
           ValueOf(blurred).pixel = Average(ValueOf(blurred).samples)

CachesOnlyGrow ==
    /\ \A pair \in perspective_cache : pair \in perspective_cache'
    /\ cached_background # NoValue =>
           /\ cached_background' # NoValue
           /\ arrays'[ValueOf(cached_background')]
                  = arrays[ValueOf(cached_background)]

\* C26: motion-blur sub-renders run on a worker pool only when S >= 3,
\* with min(S, 4) workers, and sequentially otherwise; for every
\* interleaving of the workers' check-then-insert accesses to the shared
\* perspective-matrix cache and background cache, each key ends up mapped
\* to the value a sequential run computes, no entry is ever removed or
\* replaced by a different value, and the averaged frame equals the one
\* obtained by rendering the S sub-samples sequentially.
C26_PoolAndCaches == []CachesSound /\ [][CachesOnlyGrow]_vars

\* two pool threads have both found no cached background and built one,
\* and both are about to insert the matrix of the same key
C26_Witness ==
    /\ cfg.motion_blur = 3
    /\ Len(arrays) = num_images + 2
    /\ \E r1 \in DOMAIN workers : \E r2 \in DOMAIN workers :
          /\ r1 # r2
          /\ workers[r1].pc = "p_insert"
          /\ workers[r2].pc = "p_insert"
          /\ cache_key(cfg, MatrixEntries(workers[r1].task)[workers[r1].entry])
               = cache_key(cfg,
                           MatrixEntries(workers[r2].task)[workers[r2].entry])
          /\ workers[r1].task # workers[r2].task

\* the layers of a canvas drawn for one entry of to_render
LayersFor(canvas, e) ==
    LET IsFor(l) == l.img_idx = e.img_idx /\ l.position = e.position
    IN  SelectSeq(Drawn(canvas), IsFor)
\* the entry's image is one pixel wide and scaled down: int(w * scale) = 0
EntryDegenerate(e) == e.img_idx \in cfg.narrow /\ e.position[1] # 0

\* C27: when the scaled width or height computed for an image is <= 0,
\* apply_perspective returns none and render_frame composites neither that
\* image nor its reflection for this frame, goes on to composite the
\* remaining visible images, and raises no error (the call returns its
\* canvas).
C27_DegenerateOmitted ==
    \A c \in 1 .. Len(canvases) :
        LET canvas == canvases[c]
            entries == to_render(cfg, canvas.center_idx, canvas.offset)
        IN  \A j \in 1 .. Len(entries) :
                LET kinds == [k \in 1 .. Len(LayersFor(canvas, entries[j])) |->
                                 LayersFor(canvas, entries[j])[k].kind]
                IN  IF EntryDegenerate(entries[j])
                      THEN kinds = <<>>
                      ELSE kinds = IF cfg.reflection
                                     THEN <<"image", "reflection">>
                                     ELSE <<"image">>

C27_Witness ==
    /\ cfg.reflection
    /\ cfg.narrow = {0}
    /\ num_images = 3
    /\ \E c \in 1 .. Len(canvases) :
          LET entries == to_render(cfg, canvases[c].center_idx,
                                   canvases[c].offset)
          IN  /\ \E j \in 1 .. Len(entries) : EntryDegenerate(entries[j])
              /\ Len(entries) >= 3
              /\ ~EntryDegenerate(entries[Len(entries)])
              /\ Len(Drawn(canvases[c])) >= 4

\* the overlap rectangle of an image at (x, y) and the canvas
InOverlap(call, p) ==
    /\ call.img # NoValue
    /\ Max(0, call.x) <= p[1]
    /\ p[1] < Min(Cardinality(CanvasCols), call.x + ValueOf(call.img).w)
    /\ Max(0, call.y) <= p[2]
    /\ p[2] < Min(Cardinality(CanvasRows), call.y + ValueOf(call.img).h)

\* C28: blend_onto_canvas changes only the canvas pixels inside the overlap
\* rectangle [max(0,x), min(W, x+w)) x [max(0,y), min(H, y+h)), taking each
\* from image pixel (cx - x, cy - y) (an opaque image pixel replaces the
\* canvas pixel, a transparent one leaves it), and leaves every other pixel
\* unchanged; it returns the canvas unchanged when the image is null or the
\* overlap rectangle is empty, for every integer x and y including negative
\* ones.
C28_BlendOverlapOnly ==
    \A c \in 1 .. Len(helper_calls) :
        LET call == helper_calls[c]
        IN  call.fn = "blend_onto_canvas" =>
              /\ DOMAIN call.returned = DOMAIN call.canvas
              /\ \A p \in DOMAIN call.canvas :
                    IF InOverlap(call, p)
                      THEN LET pixel == ValueOf(call.img).px[
                                            <<p[1] - call.x, p[2] - call.y>>]
                           IN  call.returned[p] =
                                   IF pixel.a = 255 THEN pixel.v
                                                    ELSE call.canvas[p]
                      ELSE call.returned[p] = call.canvas[p]
              /\ (call.img = NoValue
                     \/ \A p \in DOMAIN call.canvas : ~InOverlap(call, p))
                   => call.returned = call.canvas

\* a 2 x 2 image at (-1, -1): only its last pixel lands on the canvas
C28_Witness ==
    /\ Len(helper_calls) = 1
    /\ helper_calls[1].fn = "blend_onto_canvas"
    /\ helper_calls[1].img # NoValue
    /\ helper_calls[1].x = -1
    /\ helper_calls[1].y = -1
    /\ ValueOf(helper_calls[1].img).w = 2
    /\ helper_calls[1].canvas[<<0, 0>>] # 4
    /\ helper_calls[1].returned[<<0, 0>>] = 4
    /\ helper_calls[1].returned[<<1, 1>>] = helper_calls[1].canvas[<<1, 1>>]

\* C29: every decay curve variant (linear, exponential, logarithmic,
\* quadratic, sqrt) returns 1.0 at angle 0 and returns value at angle 1, and
\* every increase curve variant returns 0 at angle 0 and value at angle 1,
\* for every value in [0, 1].
C29_CurveEndpoints ==
    \A c \in 1 .. Len(helper_calls) :
        LET call == helper_calls[c]
        IN  /\ call.fn = "apply_decay_curve" /\ InUnit(call.value) =>
                  /\ RatEq(call.angle, <<0, 1>>) =>
                         RatEq(call.returned, <<1, 1>>)
                  /\ RatEq(call.angle, <<1, 1>>) =>
                         RatEq(call.returned, call.value)
            /\ call.fn = "apply_increase_curve" /\ InUnit(call.value) =>
                  /\ RatEq(call.angle, <<0, 1>>) =>
                         RatEq(call.returned, <<0, 1>>)
                  /\ RatEq(call.angle, <<1, 1>>) =>
                         RatEq(call.returned, call.value)

\* C30: for every visible image the alpha fade factor that apply_perspective
\* multiplies into the alpha channel lies in [0, 1], for every alpha curve
\* variant, every side_alpha in [0, 1), every side_alpha_start >= 1 and
\* every position with |position| <= visible_range + 1, so the resulting
\* 8-bit alpha never leaves 0..255.
C30_AlphaFactorInUnit ==
    \A c \in 1 .. Len(helper_calls) :
        LET call == helper_calls[c]
        IN  (/\ call.fn = "alpha_fade"
             /\ call.alpha_factor # NoValue
             /\ InUnit(cfg.side_alpha) /\ RatLess(cfg.side_alpha, <<1, 1>>)
             /\ cfg.side_alpha_start >= 1
             /\ Abs(call.position[1]) <=
                    (cfg.visible_range + 1) * call.position[2])
            => InUnit(ValueOf(call.alpha_factor))

====
